---- MODULE Spec2Model ----
(***************************************************************************)
(* VEGA agent orchestration: the Time Crystal store (src/vtc/              *)
(* time_crystal.py) and the Infinity Loop orchestrator (src/agents/        *)
(* orchestrator.py) with the agents it drives (src/agents/*.py).           *)
(*                                                                         *)
(* Representation of the persisted JSON document                           *)
(*   document : function  category name -> section                         *)
(*   section  : [dict |-> function key -> value]   (a JSON object)         *)
(*            | [list |-> sequence of entries]     (a JSON array)          *)
(*   value    : [data |-> payload]   an entry written by store()           *)
(*            | [str |-> s] | [int |-> i] | [list |-> seq]   a bare value  *)
(*   payload  : [ty |-> kind, n |-> content id]    a caller's value        *)
(*            | a record of named fields            (agent snapshot)       *)
(* Timestamps (datetime.now()) carry no behaviour and are left out of the  *)
(* entries; an entry's content id stands for its distinct content.         *)
(***************************************************************************)
EXTENDS Integers, Sequences, FiniteSets, TLC

\* ---------------------------------------------------------------------
\* Program constants (src/vtc/time_crystal.py)
\* ---------------------------------------------------------------------
EventsCap == 1000
EventsKeep == 500
CommsCap == 500
CommsKeep == 250
HistoryCap == 100
HistoryKeep == 50

\* ---------------------------------------------------------------------
\* Bounds of the model
\* ---------------------------------------------------------------------
\* calls explored after Init in the sequential store specifications
MaxCalls == 3
\* calls explored after Init in the log-only specification
MaxLogCalls == 6
\* a restarted store starts this many entries below each cap
CapGap == 1
\* mutating calls started by the concurrent callers
MaxThreadCalls == 3
\* orchestrator operations explored after construction
MaxOrchCalls == 3
\* agent objects created, the two of the constructor included
MaxObjs == 5
\* operations explored after construction in the failing-cycle specification
MaxFaultCalls == 3
\* operations explored after construction in the agents specification
MaxAgentCalls == 5
\* pushes of the 1200-event scenario
MaxPush == 1200
\* calls and damages explored in the damaged-file specification
MaxRecoverCalls == 3
MaxInboxCalls == 3
MaxRegistryCalls == 3
MaxKeyedCalls == 3
MaxRunCalls == 12
MaxLoopCalls == 3

\* ---------------------------------------------------------------------
\* Python helpers
\* ---------------------------------------------------------------------
Min(a, b) == IF a < b THEN a ELSE b

Max(a, b) == IF a > b THEN a ELSE b

\* Python s[start:] for any integer start (negative counts from the end)
SliceFrom(s, start) ==
    LET len == Len(s)
        from == IF start < 0 THEN Max(len + start, 0) ELSE Min(start, len)
    IN  SubSeq(s, from + 1, len)

\* Python dict: d[k] = v
Put(d, k, v) == [c \in DOMAIN d \cup {k} |-> IF c = k THEN v ELSE d[c]]

\* Python {} (also the empty JSON object)
EmptyDict == [c \in {} |-> 0]

\* Python None
None == [ty |-> "null", n |-> 0]

IsDict(sec) == "dict" \in DOMAIN sec

IsList(sec) == "list" \in DOMAIN sec

\* ---------------------------------------------------------------------
\* Payloads and JSON encoding
\* ---------------------------------------------------------------------
\* a caller's value: kind and content id
Val(kind, id) == [ty |-> kind, n |-> id]

\* json.dump(..., default=str) followed by json.load, on one payload:
\* a tuple is written as an array and read back as a list; a value JSON has
\* no encoding for is written as str(value); everything else reads back equal
JsonValue(p) ==
    IF "ty" \in DOMAIN p
    THEN CASE p.ty = "tuple"  -> [p EXCEPT !.ty = "list"]
           [] p.ty = "object" -> [p EXCEPT !.ty = "str"]
           [] OTHER           -> p
    ELSE p

JsonEntry(e) == IF "data" \in DOMAIN e THEN [e EXCEPT !.data = JsonValue(@)] ELSE e

JsonSection(sec) ==
    IF IsDict(sec)
    THEN [dict |-> [k \in DOMAIN sec.dict |-> JsonEntry(sec.dict[k])]]
    ELSE [list |-> [i \in 1..Len(sec.list) |-> JsonEntry(sec.list[i])]]

\* the document as it reads back after _write_data
JsonDoc(doc) == [c \in DOMAIN doc |-> JsonSection(doc[c])]

\* ---------------------------------------------------------------------
\* TimeCrystal: the document and the in-memory modification of each method
\* ---------------------------------------------------------------------
\* the "infinity_loop" record written at creation and re-created when missing
InitialLoop ==
    [dict |-> [current_iteration |-> [int |-> 0],
               phase |-> [str |-> "idle"],
               history |-> [list |-> <<>>]]]

\* initial_data of _ensure_file_exists
InitialData ==
    [meta |-> [dict |-> [created |-> [str |-> "created"],
                         version |-> [str |-> "1.0.0"],
                         system |-> [str |-> "VEGA Time Crystal"]]],
     agents |-> [dict |-> EmptyDict],
     events |-> [list |-> <<>>],
     communications |-> [list |-> <<>>],
     infinity_loop |-> InitialLoop,
     modules |-> [dict |-> EmptyDict]]

\* outcome of a method body: the document to write, or the exception raised
Ok(doc) == [raises |-> "none", doc |-> doc]

Raise(e) == [raises |-> e, doc |-> EmptyDict]

\* variant of StoreMut with a fault: an existing key keeps its first value
StoreMut_KeepFirst(current, key, data, category) ==
    LET c1 == IF category \notin DOMAIN current
              THEN Put(current, category, [dict |-> EmptyDict])
              ELSE current
        sec == c1[category]
    IN  IF IsDict(sec) /\ key \notin DOMAIN sec.dict
        THEN Ok(Put(c1, category, [dict |-> Put(sec.dict, key, [data |-> data])]))
        ELSE Ok(c1)

\* variant of StoreMut with a fault: a missing category is not created
StoreMut_NoCreate(current, key, data, category) ==
    IF category \notin DOMAIN current THEN Raise("KeyError")
    ELSE IF IsDict(current[category])
    THEN Ok(Put(current, category,
                [dict |-> Put(current[category].dict, key, [data |-> data])]))
    ELSE Ok(Put(current, category,
                [list |-> Append(current[category].list, [key |-> key, data |-> data])]))

\* variant of StoreMut with a fault: a payload stored under a key in use is
\* merged into the payload already there
StoreMut_Merges(current, key, data, category) ==
    LET c1 == IF category \notin DOMAIN current
              THEN Put(current, category, [dict |-> EmptyDict])
              ELSE current
        sec == c1[category]
        old == IF key \in DOMAIN sec.dict THEN sec.dict[key].data ELSE data
        merged == [f \in DOMAIN old \cup DOMAIN data |->
                      IF f \in DOMAIN data THEN data[f] ELSE old[f]]
    IN  IF IsDict(sec)
        THEN Ok(Put(c1, category, [dict |-> Put(sec.dict, key, [data |-> merged])]))
        ELSE Ok(Put(c1, category,
                    [list |-> Append(sec.list, [key |-> key, data |-> data])]))

\* store(): lines 61-74, applied to the document read
StoreMut(current, key, data, category) ==
    LET c1 == IF category \notin DOMAIN current
              THEN Put(current, category, [dict |-> EmptyDict])
              ELSE current
        sec == c1[category]
    IN  IF IsDict(sec)
        THEN Ok(Put(c1, category, [dict |-> Put(sec.dict, key, [data |-> data])]))
        ELSE IF IsList(sec)
        THEN Ok(Put(c1, category,
                    [list |-> Append(sec.list, [key |-> key, data |-> data])]))
        ELSE Ok(c1)

\* variants of AppendBounded with a fault: never truncating, keeping the
\* oldest entries, truncating on reaching the cap
AppendBounded_NoTruncation(l, entry, cap, keep) == Append(l, entry)

AppendBounded_KeepOldest(l, entry, cap, keep) ==
    LET l1 == Append(l, entry)
    IN  IF Len(l1) > cap THEN SubSeq(l1, 1, keep) ELSE l1

AppendBounded_AtCap(l, entry, cap, keep) ==
    LET l1 == Append(l, entry)
    IN  IF Len(l1) >= cap THEN SliceFrom(l1, 0 - keep) ELSE l1

\* the append-then-truncate of log_event / log_communication / update_infinity_loop
AppendBounded(l, entry, cap, keep) ==
    LET l1 == Append(l, entry)
    IN  IF Len(l1) > cap THEN SliceFrom(l1, 0 - keep) ELSE l1

\* log_event(): lines 90-102
LogEventMut(current, event) ==
    LET c1 == IF "events" \notin DOMAIN current
              THEN Put(current, "events", [list |-> <<>>])
              ELSE current
        sec == c1["events"]
    IN  IF IsList(sec)
        THEN Ok(Put(c1, "events",
                    [list |-> AppendBounded(sec.list, event, EventsCap, EventsKeep)]))
        ELSE Raise("AttributeError")

\* the event record built by log_event
Event(event_type, data, source) ==
    [type |-> event_type, source |-> source, data |-> data]

\* log_communication(): lines 110-122
LogCommunicationMut(current, comm) ==
    LET c1 == IF "communications" \notin DOMAIN current
              THEN Put(current, "communications", [list |-> <<>>])
              ELSE current
        sec == c1["communications"]
    IN  IF IsList(sec)
        THEN Ok(Put(c1, "communications",
                    [list |-> AppendBounded(sec.list, comm, CommsCap, CommsKeep)]))
        ELSE Raise("AttributeError")

\* the record built by log_communication
Comm(from_agent, to_agent, message) ==
    [from |-> from_agent, to |-> to_agent, message |-> message]

\* variant of UpdateInfinityLoopMut with a fault: the history entry is
\* appended and current_iteration set, phase is left as it was
UpdateInfinityLoopMut_StalePhase(current, iteration, ph, data) ==
    LET sec == current["infinity_loop"]
        d1 == Put(sec.dict, "current_iteration", [int |-> iteration])
    IN  Ok(Put(current, "infinity_loop",
               [dict |-> Put(d1, "history",
                   [list |-> AppendBounded(d1["history"].list,
                               [iteration |-> iteration, phase |-> ph, data |-> data],
                               HistoryCap, HistoryKeep)])]))

\* update_infinity_loop(): lines 130-143
UpdateInfinityLoopMut(current, iteration, ph, data) ==
    LET c1 == IF "infinity_loop" \notin DOMAIN current
              THEN Put(current, "infinity_loop", InitialLoop)
              ELSE current
        sec == c1["infinity_loop"]
    IN  IF ~IsDict(sec) THEN Raise("TypeError")
        ELSE
        LET d1 == Put(Put(sec.dict, "current_iteration", [int |-> iteration]),
                      "phase", [str |-> ph])
        IN  IF "history" \notin DOMAIN d1 THEN Raise("KeyError")
            ELSE IF ~IsList(d1["history"]) THEN Raise("AttributeError")
            ELSE Ok(Put(c1, "infinity_loop",
                        [dict |-> Put(d1, "history",
                            [list |-> AppendBounded(d1["history"].list,
                                        [iteration |-> iteration, phase |-> ph,
                                         data |-> data],
                                        HistoryCap, HistoryKeep)])]))

\* Python truthiness of a value held in a JSON object
Truthy(v) ==
    CASE "data" \in DOMAIN v -> TRUE
      [] "str" \in DOMAIN v  -> v.str # ""
      [] "int" \in DOMAIN v  -> v.int # 0
      [] "list" \in DOMAIN v -> v.list # <<>>
      [] OTHER               -> TRUE

\* retrieve(): lines 81-85, applied to the document read
RetrieveOf(current, key, category) ==
    IF category \in DOMAIN current /\ IsDict(current[category])
    THEN IF key \in DOMAIN current[category].dict
            /\ Truthy(current[category].dict[key])
         THEN IF "data" \in DOMAIN current[category].dict[key]
              THEN [raises |-> "none", val |-> current[category].dict[key].data]
              ELSE [raises |-> "AttributeError", val |-> None]
         ELSE [raises |-> "none", val |-> None]
    ELSE [raises |-> "none", val |-> None]

\* get_recent_events(): lines 158-160; a non-empty object under "events"
\* cannot be sliced and the call raises (RecentEventsRaises)
RecentEventsOf(data, limit) ==
    LET events == IF "events" \in DOMAIN data /\ IsList(data["events"])
                  THEN data["events"].list ELSE <<>>
    IN  IF events # <<>> THEN SliceFrom(events, 0 - limit) ELSE <<>>

RecentEventsRaises(data) ==
    IF "events" \in DOMAIN data /\ IsDict(data["events"])
       /\ DOMAIN data["events"].dict # {}
    THEN "TypeError" ELSE "none"

\* get_agent_states(): data.get("agents", {})
AgentStatesOf(data) ==
    IF "agents" \in DOMAIN data THEN data["agents"] ELSE [dict |-> EmptyDict]

\* get_infinity_loop_status(): data.get("infinity_loop", {})
LoopStatusOf(data) ==
    IF "infinity_loop" \in DOMAIN data THEN data["infinity_loop"] ELSE [dict |-> EmptyDict]

\* ---------------------------------------------------------------------
\* State
\* ---------------------------------------------------------------------
VARIABLES
    file,        \* the document held by the backing file (TimeCrystal.path)
    fileState,   \* "ok": the file holds a whole document; "partial": a write is in
                 \* progress; "missing", "truncated", "undecodable": see Damage
    lock,        \* TimeCrystal.lock: the caller holding it, or NoHolder
    pushed,      \* history: entries ever appended to each bounded section
    stored,      \* history: <<category, key>> -> payload last passed to store()
    ret,         \* the last completed call and what it returned or raised
    calls,       \* number of mutating calls made so far
    pc,          \* per concurrent caller: where it is inside its method
    cur,         \* per concurrent caller: the local `current` it is about to write
    req,         \* per concurrent caller: the call it is making
    completed,   \* history: the mutating calls that returned
    written,     \* history: the documents left by completed writes
    objs,        \* the agent objects created so far, by object id (1, 2, ...)
    agents,      \* InfinityLoopOrchestrator.agents: name -> object id, in insertion order
    current_iteration,  \* InfinityLoopOrchestrator.current_iteration
    phase,       \* InfinityLoopOrchestrator.phase
    is_running,  \* InfinityLoopOrchestrator.is_running
    cycle_count, \* InfinityLoopOrchestrator.cycle_count
    cyc          \* run_full_cycle in progress: its loop variable i and results

storeVars == <<file, fileState, lock>>

threadVars == <<pc, cur, req, completed, written>>

orchVars == <<objs, agents, current_iteration, phase, is_running, cycle_count, cyc>>

vars == <<file, fileState, lock, pushed, stored, ret, calls,
          pc, cur, req, completed, written,
          objs, agents, current_iteration, phase, is_running, cycle_count, cyc>>

NoHolder == "none"

\* concurrent callers of one TimeCrystal instance
Threads == {"t1", "t2"}

\* ---------------------------------------------------------------------
\* Inputs
\* ---------------------------------------------------------------------
StoreKeys == {"k1", "k2"}

Payloads == {Val("str", 1), Val("tuple", 2), Val("object", 3)}

\* categories store() is called with; "resonance_cores" is absent at creation
StoreCats == {"agents", "resonance_cores"}

LogCats == {"events", "communications"}

\* <<key, category>> pairs retrieve() is called with
RetrieveArgs ==
    (StoreKeys \X {"agents", "resonance_cores", "events"})
    \cup {<<"version", "meta">>, <<"phase", "infinity_loop">>,
          <<"history", "infinity_loop">>, <<"k1", "infinity_loop">>,
          <<"k1", "missing">>}

Limits == {0, 1, 2000}

Iterations == {4}

\* ---------------------------------------------------------------------
\* TimeCrystal._read_data / _write_data, one caller at a time
\* ---------------------------------------------------------------------
\* variant of LockFree with a fault: the lock is not waited for
LockFree_NotHeld == TRUE

\* the lock can be taken
LockFree == lock = NoHolder

\* _read_data: json.load of the file, {} on FileNotFoundError / JSONDecodeError
ReadData == IF fileState = "ok" THEN file ELSE EmptyDict

\* _read_data: the exception it lets through.  Bytes that are not text make
\* f.read() raise UnicodeDecodeError, which the except clause does not name
ReadRaises == IF fileState = "undecodable" THEN "UnicodeDecodeError" ELSE "none"

\* a method body after its _read_data: r, unless the read raised
AfterRead(r) == IF ReadRaises = "none" THEN r ELSE Raise(ReadRaises)

\* _write_data run to completion: the file holds json.dump(data)
WriteData(data) ==
    /\ file' = JsonDoc(data)
    /\ fileState' = "ok"

\* a method body that ends in _write_data unless it raised
WriteOutcome(r) ==
    IF r.raises = "none" THEN WriteData(r.doc) ELSE UNCHANGED <<file, fileState>>

Bump(section) == [pushed EXCEPT ![section] = @ + 1]

\* the value the document holds under key in a key-indexed category
\* before store() assigns it, [data |-> None] when there is none
PriorOf(doc, key, category) ==
    IF category \in DOMAIN doc /\ IsDict(doc[category]) /\ key \in DOMAIN doc[category].dict
    THEN doc[category].dict[key]
    ELSE [data |-> None]

\* ---------------------------------------------------------------------
\* TimeCrystal methods called by a single caller
\* ---------------------------------------------------------------------
Store(key, data, category) ==
    LET r == AfterRead(StoreMut(ReadData, key, data, category))
    IN  /\ LockFree
        /\ WriteOutcome(r)
        /\ stored' = IF r.raises = "none" THEN Put(stored, <<category, key>>, data)
                      ELSE stored
        /\ ret' = [op |-> "store", key |-> key, category |-> category,
                   raises |-> r.raises, prior |-> PriorOf(ReadData, key, category)]
        /\ calls' = calls + 1
        /\ UNCHANGED <<lock, pushed, threadVars, orchVars>>

LogEvent(event_type, source) ==
    LET r == AfterRead(LogEventMut(ReadData,
                 Event(event_type, Val("int", pushed.events + 1), source)))
    IN  /\ LockFree
        /\ WriteOutcome(r)
        /\ pushed' = IF r.raises = "none" THEN Bump("events") ELSE pushed
        /\ ret' = [op |-> "log_event", raises |-> r.raises]
        /\ calls' = calls + 1
        /\ UNCHANGED <<lock, stored, threadVars, orchVars>>

LogCommunication(from_agent, to_agent) ==
    LET r == AfterRead(LogCommunicationMut(ReadData,
                 Comm(from_agent, to_agent, Val("str", pushed.communications + 1))))
    IN  /\ LockFree
        /\ WriteOutcome(r)
        /\ pushed' = IF r.raises = "none" THEN Bump("communications") ELSE pushed
        /\ ret' = [op |-> "log_communication", raises |-> r.raises]
        /\ calls' = calls + 1
        /\ UNCHANGED <<lock, stored, threadVars, orchVars>>

UpdateInfinityLoop(iteration, ph) ==
    LET r == AfterRead(UpdateInfinityLoopMut(ReadData, iteration, ph,
                                             Val("int", pushed.history + 1)))
    IN  /\ LockFree
        /\ WriteOutcome(r)
        /\ pushed' = IF r.raises = "none" THEN Bump("history") ELSE pushed
        /\ ret' = [op |-> "update_infinity_loop", iteration |-> iteration,
                   raises |-> r.raises]
        /\ calls' = calls + 1
        /\ UNCHANGED <<lock, stored, threadVars, orchVars>>

Retrieve(key, category) ==
    LET r == IF ReadRaises = "none" THEN RetrieveOf(ReadData, key, category)
             ELSE [raises |-> ReadRaises, val |-> None]
    IN  /\ LockFree
        /\ ret' = [op |-> "retrieve", key |-> key, category |-> category,
                   raises |-> r.raises, val |-> r.val]
        /\ UNCHANGED <<storeVars, pushed, stored, calls, threadVars, orchVars>>

GetRecentEvents(limit) ==
    /\ LockFree
    /\ ret' = [op |-> "get_recent_events", limit |-> limit,
               raises |-> IF ReadRaises = "none" THEN RecentEventsRaises(ReadData)
                          ELSE ReadRaises,
               events |-> RecentEventsOf(ReadData, limit)]
    /\ UNCHANGED <<storeVars, pushed, stored, calls, threadVars, orchVars>>

GetAgentStates ==
    /\ LockFree
    /\ ret' = [op |-> "get_agent_states", raises |-> ReadRaises,
               result |-> AgentStatesOf(ReadData)]
    /\ UNCHANGED <<storeVars, pushed, stored, calls, threadVars, orchVars>>

GetInfinityLoopStatus ==
    /\ LockFree
    /\ ret' = [op |-> "get_infinity_loop_status", raises |-> ReadRaises,
               result |-> LoopStatusOf(ReadData)]
    /\ UNCHANGED <<storeVars, pushed, stored, calls, threadVars, orchVars>>

\* variant of EnsureFileExists with a fault: initial_data is written every time
EnsureFileExists_Always == WriteData(InitialData)

\* _ensure_file_exists: initial_data is written only when no file exists
EnsureFileExists ==
    IF fileState = "missing" THEN WriteData(InitialData)
    ELSE UNCHANGED <<file, fileState>>

\* clear(): nothing but _ensure_file_exists
Clear ==
    /\ LockFree
    /\ EnsureFileExists
    /\ ret' = [op |-> "clear", raises |-> "none", before |-> fileState]
    /\ calls' = calls + 1
    /\ UNCHANGED <<lock, pushed, stored, threadVars, orchVars>>

\* TimeCrystal(storage_path) over the same path again (a restart of the process)
Construct ==
    /\ LockFree
    /\ EnsureFileExists
    /\ ret' = [op |-> "construct", raises |-> "none", before |-> fileState]
    /\ calls' = calls + 1
    /\ UNCHANGED <<lock, pushed, stored, threadVars, orchVars>>

\* ways the backing file is damaged from outside the program
DamageKinds == {"missing", "truncated", "undecodable"}

\* the environment deletes the file ("missing"), cuts its JSON text short
\* ("truncated": json.load raises JSONDecodeError) or overwrites it with bytes
\* that are not text ("undecodable": reading raises UnicodeDecodeError)
Damage(kind) ==
    /\ fileState = "ok"
    /\ LockFree
    /\ fileState' = kind
    /\ file' = EmptyDict
    /\ ret' = [op |-> "damage", raises |-> "none"]
    /\ calls' = calls + 1
    /\ UNCHANGED <<lock, pushed, stored, threadVars, orchVars>>

\* ---------------------------------------------------------------------
\* Initial states
\* ---------------------------------------------------------------------
NoRet == [op |-> "none", raises |-> "none"]

NoReq == [op |-> "none", no |-> 0]

\* no concurrent caller is inside a method
ThreadsIdle ==
    /\ pc = [t \in Threads |-> "idle"]
    /\ cur = [t \in Threads |-> EmptyDict]
    /\ req = [t \in Threads |-> NoReq]
    /\ completed = {}
    /\ written = {file}

\* run_full_cycle is not in progress
NoCycle == [i |-> 0, results |-> <<>>, cycle_before |-> 0]

\* no InfinityLoopOrchestrator has been constructed over the store
NoOrchestrator ==
    /\ objs = <<>>
    /\ agents = <<>>
    /\ current_iteration = 0
    /\ phase = "idle"
    /\ is_running = FALSE
    /\ cycle_count = 0
    /\ cyc = NoCycle

\* the store right after TimeCrystal() created its file
InitFresh ==
    /\ file = InitialData
    /\ fileState = "ok"
    /\ lock = NoHolder
    /\ pushed = [events |-> 0, communications |-> 0, history |-> 0]
    /\ stored = EmptyDict
    /\ ret = NoRet
    /\ calls = 0
    /\ ThreadsIdle
    /\ NoOrchestrator

\* entry i of each bounded section as the log methods write it
NthEvent(i) == Event("system", Val("int", i), "system")

NthComm(i) == Comm("a", "b", Val("str", i))

NthHistory(i) == [iteration |-> 4, phase |-> "intermediate_4", data |-> Val("int", i)]

\* the document after cap - CapGap calls of each log method on a fresh store
NearCapData ==
    [InitialData EXCEPT
        !.events = [list |-> [i \in 1..(EventsCap - CapGap) |-> NthEvent(i)]],
        !.communications = [list |-> [i \in 1..(CommsCap - CapGap) |-> NthComm(i)]],
        !.infinity_loop =
            [dict |-> [current_iteration |-> [int |-> 4],
                       phase |-> [str |-> "intermediate_4"],
                       history |-> [list |->
                           [i \in 1..(HistoryCap - CapGap) |-> NthHistory(i)]]]]]

\* TimeCrystal() over an existing file: a fresh one, or one whose logs are nearly full
InitRestart ==
    /\ file \in {InitialData, NearCapData}
    /\ fileState = "ok"
    /\ lock = NoHolder
    /\ pushed = [events |-> Len(file.events.list),
                 communications |-> Len(file.communications.list),
                 history |-> Len(file.infinity_loop.dict.history.list)]
    /\ stored = EmptyDict
    /\ ret = NoRet
    /\ calls = 0
    /\ ThreadsIdle
    /\ NoOrchestrator

\* ---------------------------------------------------------------------
\* Specifications
\* ---------------------------------------------------------------------
\* every store method, one caller, from a fresh store
Next ==
    \/ calls < MaxCalls /\ \E k \in StoreKeys, d \in Payloads, c \in StoreCats : Store(k, d, c)
    \/ calls < MaxCalls /\ LogEvent("system", "system")
    \/ calls < MaxCalls /\ LogCommunication("a", "b")
    \/ calls < MaxCalls /\ \E n \in Iterations : UpdateInfinityLoop(n, "intermediate_4")
    \/ \E a \in RetrieveArgs : Retrieve(a[1], a[2])
    \/ \E l \in Limits : GetRecentEvents(l)

Spec == InitFresh /\ [][Next]_vars

\* the three log methods only, from a fresh or a nearly full store
NextLog ==
    /\ calls < MaxLogCalls
    /\ \/ LogEvent("system", "system")
       \/ LogCommunication("a", "b")
       \/ \E n \in Iterations : UpdateInfinityLoop(n, "intermediate_4")

SpecLog == InitRestart /\ [][NextLog]_vars

\* store() on the log-shaped categories, from a fresh or a nearly full store
NextAppend ==
    /\ calls < MaxLogCalls
    /\ \/ \E c \in LogCats : Store("k1", Val("str", 1), c)
       \/ LogEvent("system", "system")
       \/ LogCommunication("a", "b")

SpecAppend == InitRestart /\ [][NextAppend]_vars

\* the scenario: log_event pushed MaxPush times on an empty events section
NextPush ==
    \/ pushed.events < MaxPush /\ LogEvent("system", "system")
    \/ \E l \in Limits : GetRecentEvents(l)

SpecPush == InitFresh /\ [][NextPush]_vars

\* the store methods around damage to the backing file, and clear()
NextRecover ==
    \/ calls < MaxRecoverCalls /\ \E kind \in DamageKinds : Damage(kind)
    \/ calls < MaxRecoverCalls /\ \E c \in {"agents", "events"} : Store("k1", Val("str", 1), c)
    \/ calls < MaxRecoverCalls /\ LogEvent("system", "system")
    \/ calls < MaxRecoverCalls /\ LogCommunication("a", "b")
    \/ calls < MaxRecoverCalls /\ \E n \in Iterations : UpdateInfinityLoop(n, "intermediate_4")
    \/ calls < MaxRecoverCalls /\ Clear
    \/ calls < MaxRecoverCalls /\ Construct
    \/ Retrieve("k1", "agents")
    \/ GetAgentStates
    \/ GetRecentEvents(20)
    \/ GetInfinityLoopStatus

SpecRecover == InitFresh /\ [][NextRecover]_vars

\* ---------------------------------------------------------------------
\* Concurrent callers of one TimeCrystal instance.  The lock is held inside
\* _read_data and inside _write_data, and released between the two.
\* ---------------------------------------------------------------------
ReadOps == {"retrieve", "get_all_data", "get_agent_states", "get_recent_events",
            "get_infinity_loop_status"}

\* the mutating calls a concurrent caller makes; no is the call's number
Requests(no) ==
    {[op |-> "log_event", no |-> no, key |-> "-", data |-> Val("int", no)],
     [op |-> "log_communication", no |-> no, key |-> "-", data |-> Val("str", no)],
     [op |-> "update_infinity_loop", no |-> no, key |-> "-", data |-> Val("int", no)]}
    \cup {[op |-> "store", no |-> no, key |-> k, data |-> Val("str", no)] : k \in StoreKeys}

\* the in-memory modification the call rq makes to the document it read
MutOf(doc, rq) ==
    CASE rq.op = "store" ->
            StoreMut(doc, rq.key, rq.data,
                     IF "category" \in DOMAIN rq THEN rq.category ELSE "agents")
      [] rq.op = "log_event" -> LogEventMut(doc, Event("system", rq.data, "system"))
      [] rq.op = "log_communication" -> LogCommunicationMut(doc, Comm("a", "b", rq.data))
      [] rq.op = "update_infinity_loop" /\ "iteration" \in DOMAIN rq ->
            UpdateInfinityLoopMut(doc, rq.iteration, rq.phase, rq.data)
      [] OTHER -> UpdateInfinityLoopMut(doc, 4, "intermediate_4", rq.data)

\* what a read method returns from the document it read
ProjectionOf(op, doc) ==
    CASE op = "retrieve" -> [val |-> RetrieveOf(doc, "k1", "agents").val]
      [] op = "get_agent_states" -> [agents |-> AgentStatesOf(doc)]
      [] op = "get_recent_events" -> [events |-> RecentEventsOf(doc, 20)]
      [] op = "get_infinity_loop_status" -> [loop |-> LoopStatusOf(doc)]
      [] OTHER -> [all |-> doc]

\* a mutating method up to its _write_data: _read_data under the lock, then
\* the modification of the local copy
BeginCall(t, rq) ==
    LET r == MutOf(ReadData, rq)
    IN  /\ pc[t] = "idle"
        /\ LockFree
        /\ req' = [req EXCEPT ![t] = rq]
        /\ IF r.raises = "none"
           THEN /\ pc' = [pc EXCEPT ![t] = "loaded"]
                /\ cur' = [cur EXCEPT ![t] = r.doc]
                /\ UNCHANGED ret
           ELSE /\ ret' = [op |-> rq.op, raises |-> r.raises]
                /\ UNCHANGED <<pc, cur>>
        /\ calls' = calls + 1
        /\ UNCHANGED <<storeVars, pushed, stored, completed, written, orchVars>>

\* _write_data: the lock is taken and open(path, "w") empties the file
WriteOpen(t) ==
    /\ pc[t] = "loaded"
    /\ LockFree
    /\ lock' = t
    /\ fileState' = "partial"
    /\ pc' = [pc EXCEPT ![t] = "writing"]
    /\ UNCHANGED <<file, pushed, stored, ret, calls, cur, req, completed, written, orchVars>>

\* _write_data: json.dump has written the document, the lock is released
\* and the method returns
WriteDump(t) ==
    /\ pc[t] = "writing"
    /\ WriteData(cur[t])
    /\ lock' = NoHolder
    /\ pc' = [pc EXCEPT ![t] = "idle"]
    /\ completed' = completed \cup {req[t]}
    /\ written' = written \cup {JsonDoc(cur[t])}
    /\ ret' = [op |-> req[t].op, raises |-> "none"]
    /\ UNCHANGED <<pushed, stored, calls, cur, req, orchVars>>

\* a read method: _read_data under the lock, then the projection
ThreadRead(t, op) ==
    /\ pc[t] = "idle"
    /\ LockFree
    /\ ret' = [op |-> op, raises |-> "none", result |-> ProjectionOf(op, ReadData)]
    /\ UNCHANGED <<storeVars, pushed, stored, calls, threadVars, orchVars>>

\* the calls two concurrent callers make while the loop advances: the
\* orchestrator's update_infinity_loop for iterations 3 and 5, an agent's
\* store of its snapshot, and a store() under the category "infinity_loop"
LoopRequests(no) ==
    {[op |-> "update_infinity_loop", no |-> no, key |-> "-", data |-> Val("int", no),
      iteration |-> 3, phase |-> "resonance_analysis"],
     [op |-> "update_infinity_loop", no |-> no, key |-> "-", data |-> Val("int", no),
      iteration |-> 5, phase |-> "optimization"],
     [op |-> "store", no |-> no, key |-> "k1", data |-> Val("str", no)],
     [op |-> "store", no |-> no, key |-> "phase", data |-> Val("str", no),
      category |-> "infinity_loop"]}

\* the document after cap - CapGap calls of update_infinity_loop on a fresh store
NearCapLoopData ==
    [InitialData EXCEPT !.infinity_loop = NearCapData["infinity_loop"]]

\* TimeCrystal() over an existing file: a fresh one, or one whose history is
\* nearly full
InitLoopRestart ==
    /\ file \in {InitialData, NearCapLoopData}
    /\ fileState = "ok"
    /\ lock = NoHolder
    /\ pushed = [events |-> 0, communications |-> 0,
                 history |-> Len(file.infinity_loop.dict.history.list)]
    /\ stored = EmptyDict
    /\ ret = NoRet
    /\ calls = 0
    /\ ThreadsIdle
    /\ NoOrchestrator

NextLoopThreads ==
    \/ \E t \in Threads :
         calls < MaxLoopCalls /\ \E rq \in LoopRequests(calls + 1) : BeginCall(t, rq)
    \/ \E t \in Threads : WriteOpen(t)
    \/ \E t \in Threads : WriteDump(t)
    \/ \E t \in Threads : ThreadRead(t, "get_infinity_loop_status")

SpecLoopThreads == InitLoopRestart /\ [][NextLoopThreads]_vars

NextThreads ==
    \/ \E t \in Threads :
         calls < MaxThreadCalls /\ \E rq \in Requests(calls + 1) : BeginCall(t, rq)
    \/ \E t \in Threads : WriteOpen(t)
    \/ \E t \in Threads : WriteDump(t)
    \/ \E t \in Threads, op \in ReadOps : ThreadRead(t, op)

SpecThreads == InitFresh /\ [][NextThreads]_vars

\* =====================================================================
\* Agents and orchestrator.  A handler runs on one thread of control: it is
\* modelled by passing a world (the document and the objects it touches)
\* through the calls it makes, in the order it makes them.  Once a call
\* raises, w.raised is set and every later call of the handler is skipped.
\* =====================================================================
World ==
    [doc |-> ReadData, pushed |-> pushed, stored |-> stored,
     objs |-> objs, agents |-> agents,
     current_iteration |-> current_iteration, phase |-> phase,
     cycle_count |-> cycle_count, raised |-> "none"]

Raised(w) == w.raised # "none"

\* the tail of a TimeCrystal method: _write_data(current), or the exception
W_Write(w, r) ==
    IF r.raises = "none" THEN [w EXCEPT !.doc = JsonDoc(r.doc)]
    ELSE [w EXCEPT !.raised = r.raises]

\* time_crystal.store(key, data, category)
W_Store(w, key, data, category) ==
    IF Raised(w) THEN w
    ELSE [W_Write(w, StoreMut(w.doc, key, data, category))
              EXCEPT !.stored = Put(@, <<category, key>>, data)]

\* time_crystal.log_event(event_type, data, source)
W_LogEvent(w, event_type, data, source) ==
    IF Raised(w) THEN w
    ELSE [W_Write(w, LogEventMut(w.doc, Event(event_type, data, source)))
              EXCEPT !.pushed.events = @ + 1]

\* time_crystal.log_communication(from_agent, to_agent, message)
W_LogCommunication(w, from_agent, to_agent, message) ==
    IF Raised(w) THEN w
    ELSE [W_Write(w, LogCommunicationMut(w.doc, Comm(from_agent, to_agent, message)))
              EXCEPT !.pushed.communications = @ + 1]

\* variant of W_UpdateInfinityLoop with a fault: current_iteration and phase
\* are written, the history entry is not
W_UpdateInfinityLoop_NoHistory(w, iteration, ph) ==
    IF Raised(w) THEN w
    ELSE [w EXCEPT !.doc["infinity_loop"].dict =
                      Put(Put(@, "current_iteration", [int |-> iteration]),
                          "phase", [str |-> ph])]

\* time_crystal.update_infinity_loop(iteration, phase)   (data=None)
W_UpdateInfinityLoop(w, iteration, ph) ==
    IF Raised(w) THEN w
    ELSE [W_Write(w, UpdateInfinityLoopMut(w.doc, iteration, ph, None))
              EXCEPT !.pushed.history = @ + 1]

\* ---------------------------------------------------------------------
\* BaseAgent and its subclasses
\* ---------------------------------------------------------------------
\* BaseAgent.__init__: self.state  (last_action None is the empty tuple)
NewState ==
    [status |-> "initialized", last_action |-> <<>>, decisions_made |-> 0,
     messages_sent |-> 0, messages_received |-> 0]

\* the object BaseAgent.__init__ and the subclass __init__ leave; only an
\* AEAgent has the attribute resonance_level, in tenths (1.0)
NewAgent(name, agent_type) ==
    LET base == [name |-> name, agent_type |-> agent_type, state |-> NewState,
                 message_queue |-> <<>>, connected_modules |-> {}]
    IN  IF agent_type = "AE-Agent" THEN Put(base, "resonance_level", 10) ELSE base

\* hasattr(agent, 'update_resonance'): only AEAgent defines it
HasUpdateResonance(o) == o.agent_type = "AE-Agent"

\* BaseAgent._save_state
W_SaveState(w, id) ==
    W_Store(w, w.objs[id].name,
            [type |-> w.objs[id].agent_type, state |-> w.objs[id].state], "agents")

\* AEAgent(...) / AECrossAgent(...) / MicroAgent(...): the new object gets the next id
W_Construct(w, name, agent_type) ==
    IF Raised(w) THEN w
    ELSE W_SaveState([w EXCEPT !.objs = Append(@, NewAgent(name, agent_type))],
                     Len(w.objs) + 1)

\* variant of W_Receive with a fault: messages_received is not incremented
W_Receive_NotCounted(w, target, message, sender) ==
    IF Raised(w) THEN w
    ELSE LET w1 == [w EXCEPT
                      !.objs[target].message_queue =
                          Append(@, [from |-> w.objs[sender].name, message |-> message])]
         IN  W_LogEvent(W_SaveState(w1, target), "message_received",
                        [from |-> w.objs[sender].name, message |-> message],
                        w.objs[target].name)

\* BaseAgent.receive(message, sender) on the object target
W_Receive(w, target, message, sender) ==
    IF Raised(w) THEN w
    ELSE LET w1 == [w EXCEPT
                      !.objs[target].message_queue =
                          Append(@, [from |-> w.objs[sender].name, message |-> message]),
                      !.objs[target].state.messages_received = @ + 1]
         IN  W_LogEvent(W_SaveState(w1, target), "message_received",
                        [from |-> w.objs[sender].name, message |-> message],
                        w.objs[target].name)

\* variant of W_Communicate with a fault: the sender's counters are written
\* back from the state it had before the delivery
W_Communicate_StaleSender(w, sender, message, target) ==
    IF Raised(w) THEN w
    ELSE LET w1 == W_LogCommunication(w, w.objs[sender].name, w.objs[target].name, message)
             w2 == W_Receive(w1, target, message, sender)
         IN  IF Raised(w2) THEN w2
             ELSE W_SaveState(
                    [w2 EXCEPT
                       !.objs[sender].state =
                           [w.objs[sender].state EXCEPT
                               !.messages_sent = @ + 1,
                               !.last_action = <<"Sent message to", w.objs[target].name>>]],
                    sender)

\* BaseAgent.communicate(message, target_agent) on the object sender
W_Communicate(w, sender, message, target) ==
    IF Raised(w) THEN w
    ELSE LET w1 == W_LogCommunication(w, w.objs[sender].name, w.objs[target].name, message)
             w2 == W_Receive(w1, target, message, sender)
         IN  IF Raised(w2) THEN w2
             ELSE W_SaveState(
                    [w2 EXCEPT
                       !.objs[sender].state.messages_sent = @ + 1,
                       !.objs[sender].state.last_action =
                           <<"Sent message to", w.objs[target].name>>],
                    sender)

\* the loop of AECrossAgent.broadcast over the objects ids
RECURSIVE W_CommunicateAll(_, _, _, _)
W_CommunicateAll(w, sender, message, ids) ==
    IF ids = <<>> THEN w
    ELSE W_CommunicateAll(W_Communicate(w, sender, message, Head(ids)),
                          sender, message, Tail(ids))

\* AECrossAgent.broadcast(message, agents)
W_Broadcast(w, sender, message, ids) ==
    W_LogEvent(W_CommunicateAll(w, sender, message, ids), "broadcast",
               [message |-> message, recipient_count |-> Len(ids)],
               w.objs[sender].name)

\* variant of W_UpdateResonance with a fault: the level is taken as given
W_UpdateResonance_NoClamp(w, id, level) ==
    IF Raised(w) THEN w
    ELSE W_SaveState([w EXCEPT !.objs[id].resonance_level = level,
                               !.objs[id].state = Put(@, "resonance_level", level)],
                     id)

\* AEAgent.update_resonance(level), level in tenths
W_UpdateResonance(w, id, level) ==
    IF Raised(w) THEN w
    ELSE LET r == Max(1, Min(100, level))
         IN  W_SaveState([w EXCEPT !.objs[id].resonance_level = r,
                                   !.objs[id].state = Put(@, "resonance_level", r)],
                         id)

\* AECrossAgent.register_module(module_name)
W_RegisterModule(w, id, module_name) ==
    IF Raised(w) THEN w
    ELSE LET cm == w.objs[id].connected_modules \cup {module_name}
             w1 == [w EXCEPT !.objs[id].connected_modules = cm,
                             !.objs[id].state = Put(@, "connected_modules", cm)]
         IN  W_LogEvent(W_SaveState(w1, id), "module_registered",
                        [module |-> module_name], w.objs[id].name)

\* variant of PopAll with a fault: the newest message is taken first
RECURSIVE PopAll_NewestFirst(_, _)
PopAll_NewestFirst(queue, processed) ==
    IF queue = <<>> THEN [queue |-> queue, processed |-> processed]
    ELSE PopAll_NewestFirst(SubSeq(queue, 1, Len(queue) - 1),
                            Append(processed, queue[Len(queue)]))

\* the loop of process_pending_messages: while the queue is not empty,
\* pop(0) and append to processed
RECURSIVE PopAll(_, _)
PopAll(queue, processed) ==
    IF queue = <<>> THEN [queue |-> queue, processed |-> processed]
    ELSE PopAll(Tail(queue), Append(processed, Head(queue)))

\* BaseAgent.process_pending_messages: the queue the loop leaves
W_ProcessPendingMessages(w, id) ==
    IF Raised(w) THEN w
    ELSE [w EXCEPT !.objs[id].message_queue = PopAll(@, <<>>).queue]

\* BaseAgent.process_pending_messages: the list it returns
ProcessedMessages(w, id) == PopAll(w.objs[id].message_queue, <<>>).processed

\* AEAgent.analyze_system_state
AnalyzeSystemState(doc) ==
    LET loop == LoopStatusOf(doc).dict
    IN  [total_agents |-> Cardinality(DOMAIN AgentStatesOf(doc).dict),
         recent_events |-> Len(RecentEventsOf(doc, 50)),
         infinity_loop_phase |->
             IF "phase" \in DOMAIN loop THEN loop["phase"].str ELSE "unknown",
         current_iteration |->
             IF "current_iteration" \in DOMAIN loop THEN loop["current_iteration"].int ELSE 0]

\* ---------------------------------------------------------------------
\* InfinityLoopOrchestrator
\* ---------------------------------------------------------------------
\* the objects ae_agent and cross_agent of the constructor
AeAgentId == 1

CrossAgentId == 2

PHASE_3 == "resonance_analysis"

PHASE_5 == "optimization"

PHASE_8 == "stabilization"

\* f"intermediate_{iteration}"
IntermediateName(n) ==
    CASE n = 0 -> "intermediate_0" [] n = 1 -> "intermediate_1"
      [] n = 2 -> "intermediate_2" [] n = 3 -> "intermediate_3"
      [] n = 4 -> "intermediate_4" [] n = 5 -> "intermediate_5"
      [] n = 6 -> "intermediate_6" [] n = 7 -> "intermediate_7"
      [] n = 8 -> "intermediate_8" [] n = 9 -> "intermediate_9"
      [] OTHER -> "intermediate_n"

\* variant of RegistryPut with a fault: a name in use gets a second entry
RegistryPut_Append(reg, name, id) == Append(reg, [name |-> name, id |-> id])

\* self.agents[name] = id: an existing key keeps its place
RegistryPut(reg, name, id) ==
    IF \E i \in 1..Len(reg) : reg[i].name = name
    THEN [i \in 1..Len(reg) |-> IF reg[i].name = name THEN [name |-> name, id |-> id]
                                                       ELSE reg[i]]
    ELSE Append(reg, [name |-> name, id |-> id])

\* list(self.agents.values()), as object ids
RegistryIds(reg) == [i \in 1..Len(reg) |-> reg[i].id]

\* InfinityLoopOrchestrator._log(message)
W_Log(w, message) ==
    W_LogEvent(w, "orchestrator",
               [message |-> message, iteration |-> w.current_iteration,
                phase |-> w.phase, cycle |-> w.cycle_count],
               "InfinityLoop")

\* InfinityLoopOrchestrator.register_agent(agent) for the object id
W_RegisterAgent(w, id) ==
    IF Raised(w) THEN w
    ELSE LET w1 == [w EXCEPT !.agents = RegistryPut(@, w.objs[id].name, id)]
             w2 == W_RegisterModule(w1, CrossAgentId, w.objs[id].name)
         IN  W_Log(w2, <<"Registered agent", w.objs[id].name>>)

\* InfinityLoopOrchestrator.create_micro_agent(name, specialty)
W_CreateMicroAgent(w, name) ==
    LET w1 == W_Construct(w, name, "MicroAgent")
    IN  W_RegisterAgent(w1, Len(w1.objs))

\* InfinityLoopOrchestrator.__init__ over the store as w holds it
\* (the cross agent's name, U+00C6 "-Orchestrator" in the source, is written in ASCII)
W_InitOrchestrator(w) ==
    LET w1 == [w EXCEPT !.current_iteration = 0, !.phase = "idle",
                        !.agents = <<>>, !.cycle_count = 0]
        w2 == W_Construct(w1, "AE-Master", "AE-Agent")
        w3 == W_Construct(w2, "AE-Orchestrator", "AE-Cross-Agent")
        w4 == IF Raised(w3) THEN w3
              ELSE [w3 EXCEPT !.agents = <<[name |-> "AE-Master", id |-> AeAgentId],
                                           [name |-> "AE-Orchestrator", id |-> CrossAgentId]>>]
    IN  W_Log(w4, <<"Infinity Loop Orchestrator initialized">>)

\* a handler's result next to the world it leaves
Returns(w, result) == [w |-> w, result |-> result]

\* the agent_resonance of _phase_resonance_analysis
AgentResonance(w) ==
    [i \in 1..Len(w.agents) |->
        [name |-> w.agents[i].name,
         status |-> w.objs[w.agents[i].id].state.status,
         decisions |-> w.objs[w.agents[i].id].state.decisions_made,
         messages |-> w.objs[w.agents[i].id].state.messages_sent]]

\* variant of W_PhaseResonanceAnalysis with a fault: the master agent is
\* marked "analyzing" and saved while the analysis runs
W_PhaseResonanceAnalysis_MarksAgent(w) ==
    LET w1 == [w EXCEPT !.phase = PHASE_3]
        w2 == W_UpdateInfinityLoop(w1, 3, PHASE_3)
        w3 == W_Log(w2, <<"Starting Phase 3: Resonance Analysis">>)
        w4 == W_SaveState([w3 EXCEPT !.objs[AeAgentId].state.status = "analyzing"],
                          AeAgentId)
        w5 == W_Log(w4, <<"Phase 3 complete: Resonance analyzed">>)
    IN  Returns(w5, [phase |-> PHASE_3, iteration |-> 3,
                     system_analysis |-> AnalyzeSystemState(w4.doc),
                     agent_resonance |-> AgentResonance(w4)])

\* InfinityLoopOrchestrator._phase_resonance_analysis
W_PhaseResonanceAnalysis(w) ==
    LET w1 == [w EXCEPT !.phase = PHASE_3]
        w2 == W_UpdateInfinityLoop(w1, 3, PHASE_3)
        w3 == W_Log(w2, <<"Starting Phase 3: Resonance Analysis">>)
        w4 == W_Log(w3, <<"Phase 3 complete: Resonance analyzed">>)
    IN  Returns(w4, [phase |-> PHASE_3, iteration |-> 3,
                     system_analysis |-> AnalyzeSystemState(w3.doc),
                     agent_resonance |-> AgentResonance(w3)])

\* the first loop of _phase_optimization: update_resonance(1.5) where defined
RECURSIVE W_TuneAll(_, _)
W_TuneAll(w, ids) ==
    IF ids = <<>> THEN w
    ELSE W_TuneAll(IF HasUpdateResonance(w.objs[Head(ids)])
                   THEN W_UpdateResonance(w, Head(ids), 15) ELSE w,
                   Tail(ids))

\* variant of W_DrainAll with a fault: the relay agent's own queue is not drained
W_DrainAll_NotRelay(w, ids) ==
    [w EXCEPT !.objs = [i \in 1..Len(w.objs) |->
                           IF i # CrossAgentId /\ \E j \in 1..Len(ids) : ids[j] = i
                           THEN [w.objs[i] EXCEPT !.message_queue = <<>>]
                           ELSE w.objs[i]]]

\* the last loop of _phase_optimization: every agent's queue is drained
RECURSIVE W_DrainAll(_, _)
W_DrainAll(w, ids) ==
    IF ids = <<>> THEN w
    ELSE W_DrainAll(W_ProcessPendingMessages(w, Head(ids)), Tail(ids))

\* InfinityLoopOrchestrator._phase_optimization
W_PhaseOptimization(w) ==
    LET w1 == [w EXCEPT !.phase = PHASE_5]
        w2 == W_UpdateInfinityLoop(w1, 5, PHASE_5)
        w3 == W_Log(w2, <<"Starting Phase 5: Optimization">>)
        w4 == W_TuneAll(w3, RegistryIds(w3.agents))
        w5 == W_Broadcast(w4, CrossAgentId, "Optimization phase initiated",
                          RegistryIds(w4.agents))
        w6 == W_DrainAll(w5, RegistryIds(w5.agents))
        w7 == W_Log(w6, <<"Phase 5 complete: System optimized">>)
    IN  Returns(w7, [phase |-> PHASE_5, iteration |-> 5,
                     optimization_actions |->
                        [i \in 1..Len(w5.agents) |->
                            [agent |-> w5.agents[i].name,
                             processed_messages |->
                                Len(w5.objs[w5.agents[i].id].message_queue)]],
                     connected_modules |-> w6.objs[CrossAgentId].connected_modules])

\* variants of W_CountCycle with a fault: cycle_count is not incremented;
\* cycle_count is incremented by the first stabilization only
W_CountCycle_Forgotten(w) == w

W_CountCycle_FirstOnly(w) ==
    IF Raised(w) \/ w.cycle_count >= 1 THEN w ELSE [w EXCEPT !.cycle_count = @ + 1]

\* self.cycle_count += 1
W_CountCycle(w) == IF Raised(w) THEN w ELSE [w EXCEPT !.cycle_count = @ + 1]

\* variant of W_StabilizeAll with a fault: the snapshots are not saved
W_StabilizeAll_NotSaved(w, ids) ==
    [w EXCEPT !.objs = [i \in 1..Len(w.objs) |->
                           IF \E j \in 1..Len(ids) : ids[j] = i
                           THEN [w.objs[i] EXCEPT !.state.status = "stable"]
                           ELSE w.objs[i]]]

\* the loop of _phase_stabilization: status "stable", then _save_state
RECURSIVE W_StabilizeAll(_, _)
W_StabilizeAll(w, ids) ==
    IF ids = <<>> \/ Raised(w) THEN w
    ELSE W_StabilizeAll(
            W_SaveState([w EXCEPT !.objs[Head(ids)].state.status = "stable"], Head(ids)),
            Tail(ids))

\* InfinityLoopOrchestrator._phase_stabilization
W_PhaseStabilization(w) ==
    LET w1 == [w EXCEPT !.phase = PHASE_8]
        w2 == W_UpdateInfinityLoop(w1, 8, PHASE_8)
        w3 == W_Log(w2, <<"Starting Phase 8: Stabilization">>)
        w4 == W_StabilizeAll(w3, RegistryIds(w3.agents))
        w5 == W_CountCycle(w4)
        w6 == W_Log(w5, <<"Phase 8 complete: System stabilized", w5.cycle_count>>)
    IN  Returns(w6, [phase |-> PHASE_8, iteration |-> 8, system_stable |-> TRUE,
                     cycle_completed |-> w5.cycle_count,
                     final_analysis |-> AnalyzeSystemState(w4.doc),
                     active_agents |-> Len(w4.agents)])

\* InfinityLoopOrchestrator._phase_intermediate
W_PhaseIntermediate(w, iteration) ==
    LET w1 == [w EXCEPT !.phase = IntermediateName(iteration)]
        w2 == W_UpdateInfinityLoop(w1, iteration, w1.phase)
    IN  Returns(w2, [phase |-> w1.phase, iteration |-> iteration,
                     status |-> "intermediate_processing"])

\* variant of W_RunIteration with a fault: iteration 5 is not dispatched
W_RunIteration_No5(w, iteration_number) ==
    LET w1 == [w EXCEPT !.current_iteration = iteration_number]
    IN  IF iteration_number = 3 THEN W_PhaseResonanceAnalysis(w1)
        ELSE IF iteration_number = 8 THEN W_PhaseStabilization(w1)
        ELSE W_PhaseIntermediate(w1, iteration_number)

\* InfinityLoopOrchestrator.run_iteration
W_RunIteration(w, iteration_number) ==
    LET w1 == [w EXCEPT !.current_iteration = iteration_number]
    IN  IF iteration_number = 3 THEN W_PhaseResonanceAnalysis(w1)
        ELSE IF iteration_number = 5 THEN W_PhaseOptimization(w1)
        ELSE IF iteration_number = 8 THEN W_PhaseStabilization(w1)
        ELSE W_PhaseIntermediate(w1, iteration_number)

\* ---------------------------------------------------------------------
\* Orchestrator operations, one caller
\* ---------------------------------------------------------------------
\* names create_micro_agent is called with
AgentNames == {"A", "B"}

\* iteration numbers run_iteration is called with
IterationNumbers == 1..8

\* iteration numbers outside range(1, 9) that run_iteration is called with
OutsideIterations == {0, 9}

\* an InfinityLoopOrchestrator has been constructed
Constructed == Len(objs) >= 2

\* the handler's world becomes the state
Commit(w) ==
    /\ file' = w.doc
    /\ pushed' = w.pushed
    /\ stored' = w.stored
    /\ objs' = w.objs
    /\ agents' = w.agents
    /\ current_iteration' = w.current_iteration
    /\ phase' = w.phase
    /\ cycle_count' = w.cycle_count

\* orchestrator.run_iteration(n) called directly
RunIteration(n) ==
    LET r == W_RunIteration(World, n)
    IN  /\ Constructed
        /\ cyc.i = 0
        /\ Commit(r.w)
        /\ ret' = [op |-> "run_iteration", n |-> n, from |-> phase,
                   raises |-> r.w.raised, result |-> r.result]
        /\ calls' = calls + 1
        /\ UNCHANGED <<fileState, lock, threadVars, is_running, cyc>>

\* orchestrator.create_micro_agent(name, specialty)
CreateMicroAgent(name) ==
    LET w == W_CreateMicroAgent(World, name)
    IN  /\ Constructed
        /\ cyc.i = 0
        /\ Len(objs) < MaxObjs
        /\ Commit(w)
        /\ ret' = [op |-> "create_micro_agent", name |-> name, raises |-> w.raised]
        /\ calls' = calls + 1
        /\ UNCHANGED <<fileState, lock, threadVars, is_running, cyc>>

\* orchestrator.register_agent(agent) called directly with the object id
RegisterAgent(id) ==
    LET w == W_RegisterAgent(World, id)
    IN  /\ Constructed
        /\ cyc.i = 0
        /\ id \in 1..Len(objs)
        /\ Commit(w)
        /\ ret' = [op |-> "register_agent", name |-> objs[id].name, id |-> id,
                   raises |-> w.raised]
        /\ calls' = calls + 1
        /\ UNCHANGED <<fileState, lock, threadVars, is_running, cyc>>

\* agent.process_pending_messages() called directly on the object id
AgentProcessPending(id) ==
    LET w == W_ProcessPendingMessages(World, id)
    IN  /\ Constructed
        /\ cyc.i = 0
        /\ id \in 1..Len(objs)
        /\ Commit(w)
        /\ ret' = [op |-> "process_pending_messages", agent |-> id,
                   processed |-> ProcessedMessages(World, id), raises |-> w.raised]
        /\ calls' = calls + 1
        /\ UNCHANGED <<fileState, lock, threadVars, is_running, cyc>>

\* ae_agent.update_resonance(level) called directly on the object id, level in tenths
UpdateResonance(id, level) ==
    LET w == W_UpdateResonance(World, id, level)
    IN  /\ Constructed
        /\ cyc.i = 0
        /\ id \in 1..Len(objs)
        /\ HasUpdateResonance(objs[id])
        /\ Commit(w)
        /\ ret' = [op |-> "update_resonance", agent |-> id, level |-> level,
                   raises |-> w.raised]
        /\ calls' = calls + 1
        /\ UNCHANGED <<fileState, lock, threadVars, is_running, cyc>>

\* agent.communicate(message, target_agent) called directly on the object sender
AgentCommunicate(sender, target) ==
    LET w == W_Communicate(World, sender, "hello", target)
    IN  /\ Constructed
        /\ cyc.i = 0
        /\ sender \in 1..Len(objs)
        /\ target \in 1..Len(objs)
        /\ Commit(w)
        /\ ret' = [op |-> "communicate", sender |-> sender, target |-> target,
                   message |-> "hello", raises |-> w.raised]
        /\ calls' = calls + 1
        /\ UNCHANGED <<fileState, lock, threadVars, is_running, cyc>>

\* run_full_cycle, lines 176-179: the first _log, is_running = True, results = []
RunFullCycleStart ==
    LET w == W_Log(World, <<"Starting full 3-5-8 cycle">>)
    IN  /\ Constructed
        /\ cyc.i = 0
        /\ Commit(w)
        /\ IF Raised(w)
           THEN /\ ret' = [op |-> "run_full_cycle", raises |-> w.raised]
                /\ UNCHANGED <<is_running, cyc>>
           ELSE /\ is_running' = TRUE
                /\ cyc' = [i |-> 1, results |-> <<>>, cycle_before |-> cycle_count]
                /\ ret' = NoRet
        /\ calls' = calls + 1
        /\ UNCHANGED <<fileState, lock, threadVars>>

\* variant of RunFullCycleIter with a fault: a failing iteration is skipped
\* and the loop goes on
RunFullCycleIter_SkipFailed ==
    LET r == W_RunIteration(World, cyc.i)
    IN  /\ cyc.i \in 1..8
        /\ Commit(r.w)
        /\ ret' = [op |-> "run_iteration", n |-> cyc.i, from |-> phase,
                   raises |-> r.w.raised, result |-> r.result]
        /\ cyc' = IF Raised(r.w) THEN [cyc EXCEPT !.i = @ + 1]
                   ELSE [cyc EXCEPT !.i = @ + 1, !.results = Append(@, r.result)]
        /\ UNCHANGED <<fileState, lock, threadVars, is_running, calls>>

\* run_full_cycle, lines 181-186: one turn of the loop, i = cyc.i
RunFullCycleIter ==
    LET r == W_RunIteration(World, cyc.i)
    IN  /\ cyc.i \in 1..8
        /\ Commit(r.w)
        /\ IF Raised(r.w)
           THEN /\ ret' = [op |-> "run_full_cycle", raises |-> r.w.raised]
                /\ cyc' = NoCycle
           ELSE /\ ret' = [op |-> "run_iteration", n |-> cyc.i, from |-> phase,
                           raises |-> "none", result |-> r.result]
                /\ cyc' = [cyc EXCEPT !.i = @ + 1, !.results = Append(@, r.result)]
        /\ UNCHANGED <<fileState, lock, threadVars, is_running, calls>>

\* run_full_cycle, lines 188-199: after the loop
RunFullCycleEnd ==
    LET w == W_Log([World EXCEPT !.phase = "cycle_complete"],
                   <<"Cycle completed", cycle_count>>)
    IN  /\ cyc.i = 9
        /\ is_running' = FALSE
        /\ Commit(w)
        /\ ret' = [op |-> "run_full_cycle", raises |-> w.raised,
                   cycle_before |-> cyc.cycle_before,
                   summary |-> [cycle_number |-> cycle_count,
                                iterations |-> cyc.results,
                                total_agents |-> Len(agents)]]
        /\ cyc' = NoCycle
        /\ UNCHANGED <<fileState, lock, threadVars, calls>>

\* InfinityLoopOrchestrator(time_crystal) over a freshly created store
InitOrch ==
    LET w == W_InitOrchestrator(
                [doc |-> InitialData,
                 pushed |-> [events |-> 0, communications |-> 0, history |-> 0],
                 stored |-> EmptyDict, objs |-> <<>>, agents |-> <<>>,
                 current_iteration |-> 0, phase |-> "idle", cycle_count |-> 0,
                 raised |-> "none"])
    IN  /\ file = w.doc
        /\ fileState = "ok"
        /\ lock = NoHolder
        /\ pushed = w.pushed
        /\ stored = w.stored
        /\ ret = NoRet
        /\ calls = 0
        /\ ThreadsIdle
        /\ objs = w.objs
        /\ agents = w.agents
        /\ current_iteration = w.current_iteration
        /\ phase = w.phase
        /\ is_running = FALSE
        /\ cycle_count = w.cycle_count
        /\ cyc = NoCycle

NextOrch ==
    \/ calls < MaxOrchCalls /\ \E n \in IterationNumbers : RunIteration(n)
    \/ calls < MaxOrchCalls /\ \E n \in OutsideIterations : RunIteration(n)
    \/ calls < MaxOrchCalls /\ \E a \in AgentNames : CreateMicroAgent(a)
    \/ calls < MaxOrchCalls /\ RunFullCycleStart
    \/ RunFullCycleIter
    \/ RunFullCycleEnd

SpecOrch == InitOrch /\ [][NextOrch]_vars

\* keys another user of the shared store writes under "infinity_loop"
LoopKeys == {"history", "k1"}

\* run_full_cycle and run_iteration(8) while another user of the shared
\* TimeCrystal (a module, a request handler) calls store() on "infinity_loop",
\* between two operations or between two iterations of the cycle
NextFault ==
    \/ calls < MaxFaultCalls /\ \E k \in LoopKeys : Store(k, Val("str", 1), "infinity_loop")
    \/ calls < MaxFaultCalls /\ RunIteration(8)
    \/ calls < MaxFaultCalls /\ RunFullCycleStart
    \/ RunFullCycleIter
    \/ RunFullCycleEnd

SpecFault == InitOrch /\ [][NextFault]_vars

\* the name of the next micro agent: A, B, C, then C again
NextAgentName ==
    CASE Len(objs) = 2 -> "A" [] Len(objs) = 3 -> "B" [] OTHER -> "C"

\* objects that call communicate directly, and their targets: the relay
\* agent and the first micro agent
Talkers == {CrossAgentId, 3}

\* micro agents are registered, agents send each other messages, and the
\* optimization phase runs
NextAgents ==
    \/ calls < MaxAgentCalls /\ CreateMicroAgent(NextAgentName)
    \/ calls < MaxAgentCalls /\ \E s \in Talkers, t \in Talkers : AgentCommunicate(s, t)
    \/ calls < MaxAgentCalls /\ RunIteration(5)

SpecAgents == InitOrch /\ [][NextAgents]_vars

\* an orchestrator after create_micro_agent("A", ...)
InitInbox ==
    LET w == W_CreateMicroAgent(
                W_InitOrchestrator(
                   [doc |-> InitialData,
                    pushed |-> [events |-> 0, communications |-> 0, history |-> 0],
                    stored |-> EmptyDict, objs |-> <<>>, agents |-> <<>>,
                    current_iteration |-> 0, phase |-> "idle", cycle_count |-> 0,
                    raised |-> "none"]),
                "A")
    IN  /\ file = w.doc
        /\ fileState = "ok"
        /\ lock = NoHolder
        /\ pushed = w.pushed
        /\ stored = w.stored
        /\ ret = NoRet
        /\ calls = 0
        /\ ThreadsIdle
        /\ objs = w.objs
        /\ agents = w.agents
        /\ current_iteration = w.current_iteration
        /\ phase = w.phase
        /\ is_running = FALSE
        /\ cycle_count = w.cycle_count
        /\ cyc = NoCycle

\* levels update_resonance is called with, in tenths: -1.0, 5.5, 25.0
ResonanceLevels == {-10, 55, 250}

\* agents send each other messages and drain their inboxes, the master
\* agent is tuned, and the optimization phase runs
NextInbox ==
    \/ calls < MaxInboxCalls /\ \E s \in Talkers, t \in Talkers : AgentCommunicate(s, t)
    \/ calls < MaxInboxCalls /\ \E a \in Talkers : AgentProcessPending(a)
    \/ calls < MaxInboxCalls /\ \E l \in ResonanceLevels : UpdateResonance(AeAgentId, l)
    \/ calls < MaxInboxCalls /\ RunIteration(5)

SpecInbox == InitInbox /\ [][NextInbox]_vars

\* names micro agents are created with: a new name, twice, and the name the
\* relay agent already has
RegistryNames == {"A", "AE-Orchestrator"}

\* the micro agents that call communicate
MicroTalkers == {3, 4}

\* agents are created and registered, also under a name in use, objects are
\* registered again, micro agents send messages, the optimization phase runs
NextRegistry ==
    \/ calls < MaxRegistryCalls /\ \E a \in RegistryNames : CreateMicroAgent(a)
    \/ calls < MaxRegistryCalls /\ \E id \in 1..MaxObjs : RegisterAgent(id)
    \/ calls < MaxRegistryCalls
          /\ \E s \in MicroTalkers, t \in MicroTalkers : AgentCommunicate(s, t)
    \/ calls < MaxRegistryCalls /\ RunIteration(5)

SpecRegistry == InitOrch /\ [][NextRegistry]_vars

\* payloads with different fields, stored under the same key in turn
DictPayloads ==
    {[status |-> "ready", level |-> 1], [status |-> "stable"], [owner |-> "x"]}

\* categories of the initial document that are JSON objects keyed by name
KeyedCats == {"agents", "modules"}

\* keys of key-indexed categories are stored again and again with other
\* payloads while events are logged
NextKeyed ==
    \/ calls < MaxKeyedCalls
          /\ \E k \in StoreKeys, d \in DictPayloads, c \in KeyedCats : Store(k, d, c)
    \/ calls < MaxKeyedCalls /\ LogEvent("system", "system")
    \/ \E k \in StoreKeys, c \in KeyedCats : Retrieve(k, c)

SpecKeyed == InitFresh /\ [][NextKeyed]_vars

\* ---------------------------------------------------------------------
\* The run endpoint of the web application, two requests at a time
\* ---------------------------------------------------------------------
\* api_run_infinity_loop, lines 137-139: the is_running guard; a request that
\* finds the flag set is answered 400
ApiRunGuard(t) ==
    /\ Constructed
    /\ pc[t] = "idle"
    /\ IF is_running
       THEN /\ ret' = [op |-> "api_run", thread |-> t, raises |-> "none", status |-> 400]
            /\ UNCHANGED pc
       ELSE /\ pc' = [pc EXCEPT ![t] = "admitted"]
            /\ UNCHANGED ret
    /\ calls' = calls + 1
    /\ UNCHANGED <<storeVars, pushed, stored, cur, req, completed, written, orchVars>>

\* run_full_cycle, lines 176-179, called by the request t
ApiRunStart(t) ==
    LET w == W_Log(World, <<"Starting full 3-5-8 cycle">>)
    IN  /\ pc[t] = "admitted"
        /\ Commit(w)
        /\ IF Raised(w)
           THEN /\ ret' = [op |-> "api_run", thread |-> t, raises |-> w.raised,
                           status |-> 500]
                /\ pc' = [pc EXCEPT ![t] = "idle"]
                /\ UNCHANGED <<is_running, req>>
           ELSE /\ is_running' = TRUE
                /\ pc' = [pc EXCEPT ![t] = "cycling"]
                /\ req' = [req EXCEPT ![t] = [op |-> "run_full_cycle", no |-> 1,
                                              results |-> <<>>]]
                /\ UNCHANGED ret
        /\ calls' = calls + 1
        /\ UNCHANGED <<fileState, lock, cur, completed, written, cyc>>

\* run_full_cycle, lines 181-186, called by the request t: one turn of the
\* loop, i = req[t].no
ApiRunIter(t) ==
    LET r == W_RunIteration(World, req[t].no)
    IN  /\ pc[t] = "cycling"
        /\ req[t].no \in 1..8
        /\ Commit(r.w)
        /\ IF Raised(r.w)
           THEN /\ ret' = [op |-> "api_run", thread |-> t, raises |-> r.w.raised,
                           status |-> 500]
                /\ pc' = [pc EXCEPT ![t] = "idle"]
                /\ req' = [req EXCEPT ![t] = NoReq]
           ELSE /\ ret' = [op |-> "run_iteration", n |-> req[t].no, from |-> phase,
                           raises |-> "none", result |-> r.result, thread |-> t]
                /\ req' = [req EXCEPT ![t].no = @ + 1, ![t].results = Append(@, r.result)]
                /\ UNCHANGED pc
        /\ calls' = calls + 1
        /\ UNCHANGED <<fileState, lock, cur, completed, written, is_running, cyc>>

\* run_full_cycle, lines 188-199, and the response of api_run_infinity_loop
ApiRunEnd(t) ==
    LET w == W_Log([World EXCEPT !.phase = "cycle_complete"],
                   <<"Cycle completed", cycle_count>>)
    IN  /\ pc[t] = "cycling"
        /\ req[t].no = 9
        /\ is_running' = FALSE
        /\ Commit(w)
        /\ ret' = [op |-> "api_run", thread |-> t, raises |-> w.raised,
                   status |-> IF Raised(w) THEN 500 ELSE 200,
                   summary |-> [cycle_number |-> cycle_count,
                                iterations |-> req[t].results,
                                total_agents |-> Len(agents)]]
        /\ pc' = [pc EXCEPT ![t] = "idle"]
        /\ req' = [req EXCEPT ![t] = NoReq]
        /\ calls' = calls + 1
        /\ UNCHANGED <<fileState, lock, cur, completed, written, cyc>>

\* POST /api/infinity-loop/run handled by two threads of the server
NextRun ==
    \/ \E t \in Threads : calls < MaxRunCalls /\ ApiRunGuard(t)
    \/ \E t \in Threads : calls < MaxRunCalls /\ ApiRunStart(t)
    \/ \E t \in Threads : calls < MaxRunCalls /\ ApiRunIter(t)
    \/ \E t \in Threads : calls < MaxRunCalls /\ ApiRunEnd(t)

SpecRun == InitOrch /\ [][NextRun]_vars

\* =====================================================================
\* Properties
\* =====================================================================
Events == file["events"].list

Communications == file["communications"].list

History == file["infinity_loop"].dict["history"].list

AllIdle == \A t \in Threads : pc[t] = "idle"

\* the document after the call rq on doc, run alone
ApplyCall(doc, rq) == JsonDoc(MutOf(doc, rq).doc)

\* the documents left by running the calls of C one after another in some order
RECURSIVE SerialDocs(_)
SerialDocs(C) ==
    IF C = {} THEN {InitialData}
    ELSE UNION {{ApplyCall(d, rq) : d \in SerialDocs(C \ {rq})} : rq \in C}

\* C1: when concurrent callers have all returned, the persisted document is
\* the result of running their mutating calls one after another in some order
\* (no call's update is lost).
C1_Serializable == AllIdle => file \in SerialDocs(completed)

\* C2: what a read method returns while other callers mutate the store is
\* its projection of a document some completed write left; it is never taken
\* from a partially written file.
C2_ReadsWholeState ==
    ret.op \in ReadOps => \E w \in written : ret.result = ProjectionOf(ret.op, w)

\* a read returned while another caller was between its read and its write,
\* after at least one write by a concurrent caller completed
C2_Witness ==
    /\ ret.op = "get_all_data"
    /\ \E t \in Threads : pc[t] = "loaded"
    /\ Cardinality(written) >= 2

\* C3: after any sequence of log_event, log_communication and
\* update_infinity_loop calls, events holds at most 1000 entries,
\* communications at most 500 and infinity_loop.history at most 100.
C3_CapsHold ==
    /\ Len(Events) <= 1000
    /\ Len(Communications) <= 500
    /\ Len(History) <= 100

\* every bounded section has been filled to its cap and then appended to
C3_Witness ==
    /\ pushed.events > 1000
    /\ pushed.communications > 500
    /\ pushed.history > 100

\* the content ids of the persisted entries are the last Len ids appended, in order
IsSuffixOfAppended(ids, total) ==
    \A i \in 1..Len(ids) : ids[i] = total - Len(ids) + i

C4_SuffixNow ==
    /\ IsSuffixOfAppended([i \in 1..Len(Events) |-> Events[i].data.n], pushed.events)
    /\ IsSuffixOfAppended([i \in 1..Len(Communications) |-> Communications[i].message.n],
                          pushed.communications)
    /\ IsSuffixOfAppended([i \in 1..Len(History) |-> History[i].data.n], pushed.history)

C4_TruncationKeeps ==
    /\ Len(Events') < Len(Events) + 1 /\ pushed'.events # pushed.events
          => Len(Events') = 500
    /\ Len(Communications') < Len(Communications) + 1
          /\ pushed'.communications # pushed.communications
          => Len(Communications') = 250
    /\ Len(History') < Len(History) + 1 /\ pushed'.history # pushed.history
          => Len(History') = 50

\* C4: the persisted entries of each bounded section are a contiguous suffix,
\* in order, of everything ever appended to it, and an append that truncates
\* leaves exactly the most recent 500 / 250 / 50 entries.
C4_KeepsMostRecent == [](C4_SuffixNow) /\ [][C4_TruncationKeeps]_vars

\* each section has just been truncated to its kept length
C4_Witness ==
    /\ Len(Events) = 500 /\ pushed.events = 1001
    /\ Len(Communications) = 250 /\ pushed.communications = 501
    /\ Len(History) = 50 /\ pushed.history = 101

\* get_recent_events(2000) right after the 1200th push on an empty section
After1200Pushes ==
    /\ ret.op = "get_recent_events"
    /\ ret.limit = 2000
    /\ pushed.events = 1200

\* C5 as stated: the call returns exactly 500 events, the last 500 pushed,
\* in push order.
C5_Returns500 ==
    After1200Pushes =>
        /\ Len(ret.events) = 500
        /\ \A i \in 1..Len(ret.events) : ret.events[i].data.n = 700 + i

\* C5 (amended): the call returns exactly 699 events, the last 699 pushed
\* (pushes 502..1200), in push order.
C5_Returns699 ==
    After1200Pushes =>
        /\ Len(ret.events) = 699
        /\ \A i \in 1..Len(ret.events) : ret.events[i].data.n = 501 + i

C5_Witness == After1200Pushes /\ Len(Events) > 500

KeyIndexed == {"agents", "modules", "resonance_cores"}

\* retrieve(k, c) was the last call, c is key-indexed and k was stored in c
RetrievedStored ==
    /\ ret.op = "retrieve"
    /\ ret.category \in KeyIndexed
    /\ <<ret.category, ret.key>> \in DOMAIN stored

\* C6 as stated: retrieve(k, c) returns the payload of the most recent
\* store(k, _, c), for every payload.
C6_ReturnsPayload ==
    RetrievedStored =>
        /\ ret.raises = "none"
        /\ ret.val = stored[<<ret.category, ret.key>>]

\* C6 (amended): retrieve(k, c) returns the payload of the most recent
\* store(k, _, c) as JSON encodes and decodes it: equal to the payload when
\* JSON represents it exactly, a list for a tuple, the string form for a
\* value JSON has no encoding for.
C6_ReturnsJsonImage ==
    RetrievedStored =>
        LET v == stored[<<ret.category, ret.key>>]
        IN  /\ ret.raises = "none"
            /\ v.ty \notin {"tuple", "object"} => ret.val = v
            /\ v.ty = "tuple" => ret.val = [ty |-> "list", n |-> v.n]
            /\ v.ty = "object" => ret.val = [ty |-> "str", n |-> v.n]

\* a key stored, stored again, then retrieved from a category store() created
C6_Witness ==
    /\ RetrievedStored
    /\ ret.category = "resonance_cores"
    /\ calls >= 2
    /\ ret.val = Val("str", 1)

\* C7: retrieve returns absent and does not raise when the key was never
\* stored in the category or the category is log-shaped, for every category
\* of the document, meta and infinity_loop included.
C7_AbsentNeverRaises ==
    /\ ret.op = "retrieve"
    /\ \/ <<ret.category, ret.key>> \notin DOMAIN stored
       \/ ret.category \in {"events", "communications"}
    => ret.raises = "none" /\ ret.val = None

\* C8: no sequence of store calls on events / communications takes the
\* section above its cap.
C8_StoreKeepsCaps ==
    /\ Len(Events) <= 1000
    /\ Len(Communications) <= 500

\* C9: for every n in 1..8 and from every orchestrator state, run_iteration(n)
\* leaves phase = resonance_analysis if n = 3, optimization if n = 5,
\* stabilization if n = 8 and intermediate_<n> otherwise.
C9_PhaseOfIteration ==
    ret.op = "run_iteration" /\ ret.n \in 1..8 =>
        phase = CASE ret.n = 3 -> "resonance_analysis"
                  [] ret.n = 5 -> "optimization"
                  [] ret.n = 8 -> "stabilization"
                  [] ret.n = 1 -> "intermediate_1"
                  [] ret.n = 2 -> "intermediate_2"
                  [] ret.n = 4 -> "intermediate_4"
                  [] ret.n = 6 -> "intermediate_6"
                  [] ret.n = 7 -> "intermediate_7"

\* run_iteration(5) called from cycle_complete with a micro agent registered
C9_Witness ==
    /\ ret.op = "run_iteration"
    /\ ret.n = 5
    /\ ret.from = "cycle_complete"
    /\ phase = "optimization"
    /\ Len(agents) = 3

\* C10: one run_full_cycle() with nothing interleaved ends with cycle_count
\* one greater than before the call, is_running false and phase cycle_complete.
C10_CycleEnds ==
    ret.op = "run_full_cycle" /\ ret.raises = "none" =>
        /\ cycle_count = ret.cycle_before + 1
        /\ is_running = FALSE
        /\ phase = "cycle_complete"

\* a second full cycle has just returned
C10_Witness ==
    /\ ret.op = "run_full_cycle"
    /\ ret.raises = "none"
    /\ cycle_count = 2
    /\ Len(ret.summary.iterations) = 8

\* C11: when an iteration inside run_full_cycle() fails, the call still ends
\* with is_running false and phase cycle_complete; is_running is never left
\* true once run_full_cycle has stopped executing.
C11_StopsNotRunning ==
    /\ cyc.i = 0 => is_running = FALSE
    /\ ret.op = "run_full_cycle" => phase = "cycle_complete"

\* while the loop of run_full_cycle runs, is_running is true and the results
\* so far are those of iterations 1, 2, ... in that order
C12_LoopInOrder ==
    cyc.i >= 1 =>
        /\ is_running
        /\ Len(cyc.results) = cyc.i - 1
        /\ \A j \in 1..Len(cyc.results) : cyc.results[j].iteration = j

\* one turn of the loop runs iteration cyc.i; it goes on to cyc.i + 1 when a
\* result came back and leaves the loop, with no summary, when it raised
C12_Turn ==
    cyc.i \in 1..8 /\ cyc' # cyc =>
        /\ current_iteration' = cyc.i
        /\ is_running'
        /\ \/ /\ cyc'.i = cyc.i + 1
              /\ cyc'.results = Append(cyc.results, ret'.result)
              /\ ret'.raises = "none"
           \/ /\ cyc'.i = 0
              /\ ret'.op = "run_full_cycle"
              /\ ret'.raises # "none"
              /\ "summary" \notin DOMAIN ret'

\* a summary is returned only with the results of all eight iterations
C12_SummaryComplete ==
    "summary" \in DOMAIN ret =>
        /\ Len(ret.summary.iterations) = 8
        /\ \A j \in 1..8 : ret.summary.iterations[j].iteration = j

\* C12: run_full_cycle() runs iterations 1..8 in that order, once each, with
\* is_running true throughout; a failing iteration aborts the later ones, and
\* a summary is returned only with exactly eight results in iteration order.
C12_EightInOrder ==
    /\ [](C12_LoopInOrder /\ C12_SummaryComplete)
    /\ [][C12_Turn]_vars

\* run_full_cycle was aborted by the failure of its fourth iteration
C12_Witness ==
    /\ ret.op = "run_full_cycle"
    /\ ret.raises # "none"
    /\ current_iteration = 4
    /\ cyc.i = 0

\* the step is a run_iteration(5) that returned
Optimized ==
    /\ ret'.op = "run_iteration"
    /\ ret'.n = 5
    /\ ret'.raises = "none"
    /\ calls' = calls + 1

\* the communications the relay agent's broadcast logs, one per registered agent
BroadcastComms ==
    [i \in 1..Len(agents) |->
        Comm(objs[CrossAgentId].name, agents[i].name, "Optimization phase initiated")]

C13_Step ==
    Optimized =>
        /\ Communications' = Communications \o BroadcastComms
        /\ Len(ret'.result.optimization_actions) = Len(agents)
        /\ \A i \in 1..Len(agents) :
              /\ ret'.result.optimization_actions[i].agent = agents[i].name
              /\ ret'.result.optimization_actions[i].processed_messages =
                    Len(objs[agents[i].id].message_queue) + 1
              /\ objs'[agents[i].id].message_queue = <<>>

\* C13: run_iteration(5) logs one broadcast communication from the relay
\* agent to each registered agent, returns one optimization_actions entry per
\* registered agent whose processed_messages is the number of messages that
\* were pending in its inbox, the broadcast included, and leaves every
\* registered agent's inbox empty.
C13_BroadcastAndDrain == [][C13_Step]_vars

\* A, B and C are registered, A had a message pending, run_iteration(5) returned
C13_Witness ==
    /\ ret.op = "run_iteration" /\ ret.n = 5 /\ ret.raises = "none"
    /\ Len(agents) = 5
    /\ \E i \in 1..5 : /\ agents[i].name = "A"
                        /\ ret.result.optimization_actions[i].processed_messages >= 2
    /\ \E i \in 1..5 : agents[i].name = "C"

\* C14: when run_iteration(8) returns, every registered agent's status is
\* "stable" in memory and in the snapshot the store holds under its name, and
\* the returned cycle_completed is cycle_count after the increment.
C14_AllStable ==
    ret.op = "run_iteration" /\ ret.n = 8 /\ ret.raises = "none" =>
        /\ \A i \in 1..Len(agents) :
              /\ objs[agents[i].id].state.status = "stable"
              /\ agents[i].name \in DOMAIN file["agents"].dict
              /\ file["agents"].dict[agents[i].name].data.state.status = "stable"
        /\ ret.result.cycle_completed = cycle_count

\* run_iteration(8) returned with a micro agent registered
C14_Witness ==
    /\ ret.op = "run_iteration" /\ ret.n = 8 /\ ret.raises = "none"
    /\ Len(agents) >= 3
    /\ cycle_count = 1

\* the step is an iteration 8 that completed, called directly or by run_full_cycle
Stabilized ==
    /\ ret'.op = "run_iteration"
    /\ ret'.n = 8
    /\ ret'.raises = "none"
    /\ pushed' # pushed

C15_Step == cycle_count' = cycle_count + (IF Stabilized THEN 1 ELSE 0)

\* C15: cycle_count is the number of completed run_iteration(8) calls since
\* construction: every completed iteration 8 adds one, whatever ran before
\* it, and nothing else changes it.
C15_CountsStabilizations == [][C15_Step]_vars

\* run_iteration(8) returned twice in a row
C15_Witness ==
    /\ ret.op = "run_iteration" /\ ret.n = 8 /\ ret.raises = "none"
    /\ ret.from = "stabilization"
    /\ cycle_count = 2

\* C16: clear() leaves the store in its empty initial shape, whatever it
\* held before.
C16_ClearResets ==
    ret.op = "clear" => fileState = "ok" /\ file = InitialData

\* what a store method called on a damaged backing file does
C17_Step ==
    /\ ret'.raises = "none"
    /\ ret'.op = "retrieve" => ret'.val = None
    /\ ret'.op = "get_agent_states" => ret'.result = [dict |-> EmptyDict]
    /\ ret'.op = "get_recent_events" => ret'.events = <<>>
    /\ ret'.op = "get_infinity_loop_status" => ret'.result = [dict |-> EmptyDict]
    /\ ret'.op = "store" =>
          /\ fileState' = "ok"
          /\ ret'.key \in DOMAIN file'[ret'.category].dict
    /\ ret'.op = "log_event" =>
          /\ fileState' = "ok"
          /\ file'["events"].list # <<>>
    /\ ret'.op = "log_communication" =>
          /\ fileState' = "ok"
          /\ file'["communications"].list # <<>>
    /\ ret'.op = "update_infinity_loop" =>
          /\ fileState' = "ok"
          /\ file'["infinity_loop"].dict["current_iteration"].int = ret'.iteration
          /\ file'["infinity_loop"].dict["history"].list # <<>>

C17_FromDamaged == fileState \in DamageKinds => C17_Step

\* C17: on a missing or corrupted backing file every read method returns
\* its empty result without raising, and every mutating method succeeds and
\* writes a document that contains its own update.
C17_DamagedFailSoft == [][C17_FromDamaged]_vars

\* C18: for every limit >= 0, get_recent_events(limit) returns exactly the
\* last min(limit, m) of the m persisted events, oldest first, and leaves the
\* persisted document as it was.
C18_LastMinLimit ==
    ret.op = "get_recent_events" /\ ret.raises = "none" =>
        LET m == Len(file["events"].list)
            k == Min(ret.limit, m)
        IN  ret.events = SubSeq(file["events"].list, m - k + 1, m)

\* a store() step on a category the document does not hold
C19_StoreCreates ==
    ret'.op = "store" /\ calls' = calls + 1 /\ ret'.category \notin DOMAIN file
    => /\ ret'.raises = "none"
       /\ ret'.category \in DOMAIN file'
       /\ IsDict(file'[ret'.category])
       /\ ret'.key \in DOMAIN file'[ret'.category].dict

\* retrieve(k, c) was the last call, on a category store() created, k stored in it
RetrievedFromCreated ==
    /\ ret.op = "retrieve"
    /\ ret.category \notin DOMAIN InitialData
    /\ <<ret.category, ret.key>> \in DOMAIN stored

\* C19 as stated: store() on a category the document does not hold never
\* fails and creates it as key-indexed, and retrieve(key, category) afterwards
\* returns data.
C19_ReturnsData ==
    /\ [][C19_StoreCreates]_vars
    /\ [](RetrievedFromCreated =>
             ret.raises = "none" /\ ret.val = stored[<<ret.category, ret.key>>])

\* C19 (amended): store() on a category the document does not hold never
\* fails and creates it as key-indexed, and retrieve(key, category) afterwards
\* returns data as JSON encodes and decodes it.
C19_ReturnsImageOfData ==
    /\ [][C19_StoreCreates]_vars
    /\ [](RetrievedFromCreated =>
             ret.raises = "none"
             /\ ret.val = JsonValue(stored[<<ret.category, ret.key>>]))

\* a tuple stored in a category store() created was read back, as a list
C19_Witness ==
    /\ RetrievedFromCreated
    /\ stored[<<ret.category, ret.key>>].ty = "tuple"
    /\ ret.val.ty = "list"

\* the step is a communicate() called directly that returned
Communicated ==
    /\ ret'.op = "communicate"
    /\ ret'.raises = "none"
    /\ calls' = calls + 1

C20_Step ==
    Communicated =>
        LET s == ret'.sender
            t == ret'.target
        IN  /\ Communications' =
                  Append(Communications, Comm(objs[s].name, objs[t].name, ret'.message))
            /\ objs'[t].message_queue =
                  Append(objs[t].message_queue,
                         [from |-> objs[s].name, message |-> ret'.message])
            /\ objs'[t].state.messages_received = objs[t].state.messages_received + 1
            /\ objs'[s].state.messages_sent = objs[s].state.messages_sent + 1
            /\ s # t => /\ objs'[s].state.messages_received = objs[s].state.messages_received
                        /\ objs'[s].message_queue = objs[s].message_queue
                        /\ objs'[t].state.messages_sent = objs[t].state.messages_sent
            /\ Len(objs') = Len(objs)
            /\ \A o \in 1..Len(objs) \ {s, t} :
                  /\ objs'[o].message_queue = objs[o].message_queue
                  /\ objs'[o].state.messages_sent = objs[o].state.messages_sent
                  /\ objs'[o].state.messages_received = objs[o].state.messages_received

\* C20: one communicate(message, target) appends exactly one {from, to} entry
\* to communications and one message to the end of the target's inbox, adds 1
\* to the target's messages_received and to the sender's messages_sent (also
\* when sender and target are one agent), and changes no other agent's
\* counters or inbox.
C20_OneDelivery == [][C20_Step]_vars

\* an agent sent a message to itself, with another message already in its inbox
C20_Witness ==
    /\ ret.op = "communicate" /\ ret.raises = "none"
    /\ ret.sender = ret.target
    /\ Len(objs[ret.target].message_queue) = 2
    /\ objs[ret.sender].state.messages_sent = 1

\* a completed process_pending_messages call
Drained == ret'.op = "process_pending_messages" /\ calls' = calls + 1

\* C21: process_pending_messages returns the inbox as it was, oldest message
\* first, leaves the inbox empty and the received and sent counters as they
\* were; called again with no receive in between it returns the empty list
C21_Step ==
    Drained =>
        LET a == ret'.agent
        IN  /\ ret'.raises = "none"
            /\ ret'.processed = objs[a].message_queue
            /\ objs'[a].message_queue = <<>>
            /\ objs'[a].state = objs[a].state
            /\ \A o \in 1..Len(objs) : o # a => objs'[o] = objs[o]
            /\ file' = file
            /\ (ret.op = "process_pending_messages" /\ ret.agent = a
                    => ret'.processed = <<>>)

C21_DrainsInOrder == [][C21_Step]_vars

\* an inbox holding two messages from different senders has been drained
C21_Witness ==
    /\ ret.op = "process_pending_messages"
    /\ Len(ret.processed) = 2
    /\ ret.processed[1].from = objs[3].name
    /\ ret.processed[2].from = objs[CrossAgentId].name
    /\ objs[ret.agent].message_queue = <<>>
    /\ objs[ret.agent].state.messages_received = 2

\* a completed construction of a TimeCrystal over a file that exists
Reconstructed ==
    ret'.op = "construct" /\ calls' = calls + 1 /\ fileState # "missing"

\* C22: constructing a TimeCrystal over a backing file that exists changes
\* nothing: the file is as the last write left it and every section reads
\* back the same
C22_Step ==
    Reconstructed =>
        /\ file' = file
        /\ fileState' = fileState
        /\ ReadData' = ReadData
        /\ ret'.raises = "none"

C22_RestartKeepsData == [][C22_Step]_vars

\* a TimeCrystal has been constructed over a file that holds a stored key
\* and a logged event
C22_Witness ==
    /\ ret.op = "construct"
    /\ ret.before = "ok"
    /\ fileState = "ok"
    /\ file # InitialData
    /\ DOMAIN file = DOMAIN InitialData
    /\ "k1" \in DOMAIN file["agents"].dict
    /\ Len(Events) = 1

\* the phases of the loop
LoopPhases ==
    {"idle", "resonance_analysis", "optimization", "stabilization",
     "intermediate_1", "intermediate_2", "intermediate_4", "intermediate_6",
     "intermediate_7", "cycle_complete"}

\* C23: current_iteration is in 0..8 and phase is one of the phases of the
\* loop in every reachable state, and run_iteration(n) with n outside 1..8
\* is reported as an error.
C23_IterationInDomain ==
    /\ current_iteration \in 0..8
    /\ phase \in LoopPhases
    /\ (ret.op = "run_iteration" /\ ret.n \notin 1..8 => ret.raises # "none")

\* a run_iteration call, direct or as a turn of run_full_cycle, has returned
IterationRan ==
    /\ ret'.op = "run_iteration"
    /\ ret'.raises = "none"
    /\ (calls' = calls + 1 \/ cyc'.i = cyc.i + 1)

\* C24: run_iteration(3) and run_iteration(n) for n in {1, 2, 4, 6, 7} change
\* no agent object, inbox or snapshot, not the registry, not cycle_count and
\* no section of the store other than infinity_loop and, for n = 3, events.
C24_Step ==
    IterationRan /\ ret'.n \in {1, 2, 3, 4, 6, 7} =>
        /\ objs' = objs
        /\ agents' = agents
        /\ cycle_count' = cycle_count
        /\ is_running' = is_running
        /\ stored' = stored
        /\ DOMAIN file' = DOMAIN file
        /\ \A c \in DOMAIN file \ {"infinity_loop", "events"} : file'[c] = file[c]
        /\ (ret'.n # 3 => file'["events"] = file["events"])
        /\ current_iteration' = ret'.n

C24_AnalysisMutatesNoAgent == [][C24_Step]_vars

\* run_iteration(3) returned with a micro agent registered, after an
\* optimization phase had changed the agents' counters
C24_Witness ==
    /\ ret.op = "run_iteration"
    /\ ret.n = 3
    /\ ret.raises = "none"
    /\ ret.from = "optimization"
    /\ Len(agents) = 3
    /\ objs[CrossAgentId].state.messages_sent = 3
    /\ phase = "resonance_analysis"

\* C25: a completed run_iteration(n) leaves infinity_loop.current_iteration
\* equal to n and infinity_loop.phase equal to the phase the orchestrator set,
\* and has appended exactly one entry {iteration n, that phase} to
\* infinity_loop.history.
C25_Step ==
    IterationRan =>
        LET loop == file'["infinity_loop"].dict
            entry == [iteration |-> ret'.n, phase |-> phase', data |-> None]
        IN  /\ current_iteration' = ret'.n
            /\ phase' = ret'.result.phase
            /\ loop["current_iteration"] = [int |-> ret'.n]
            /\ loop["phase"] = [str |-> phase']
            /\ pushed'.history = pushed.history + 1
            /\ loop["history"].list[Len(loop["history"].list)] = entry
            /\ (Len(History) < HistoryCap => loop["history"].list = Append(History, entry))

C25_IterationPersisted == [][C25_Step]_vars

\* run_iteration(4) returned after two other iterations
C25_Witness ==
    /\ ret.op = "run_iteration"
    /\ ret.n = 4
    /\ ret.raises = "none"
    /\ Len(History) = 3
    /\ History[3] = [iteration |-> 4, phase |-> "intermediate_4", data |-> None]
    /\ History[2].iteration # 4
    /\ file["infinity_loop"].dict["phase"] = [str |-> "intermediate_4"]

\* the snapshot _save_state writes for the object o
SnapshotOf(o) == [data |-> JsonValue([type |-> o.agent_type, state |-> o.state])]

\* C26: after every completed operation, for every agent in the registry the
\* snapshot stored under its name in the agents section equals the agent's
\* in-memory state, also after a name has been registered again.
C26_SnapshotsCurrent ==
    \A i \in 1..Len(agents) :
        /\ agents[i].name \in DOMAIN file["agents"].dict
        /\ file["agents"].dict[agents[i].name] = SnapshotOf(objs[agents[i].id])

\* a register_agent call has returned, direct or from create_micro_agent
Registered ==
    /\ ret'.op \in {"register_agent", "create_micro_agent"}
    /\ ret'.raises = "none"
    /\ calls' = calls + 1

\* the object the step registered
RegisteredId == IF ret'.op = "register_agent" THEN ret'.id ELSE Len(objs')

\* no two entries of the registry have the same name
NamesUnique(reg) ==
    \A i \in 1..Len(reg), j \in 1..Len(reg) : reg[i].name = reg[j].name => i = j

C27_Step ==
    Registered =>
        /\ objs'[RegisteredId].name = ret'.name
        /\ \E i \in 1..Len(agents') : agents'[i] = [name |-> ret'.name, id |-> RegisteredId]
        /\ \A i \in 1..Len(agents) :
              agents[i].name # ret'.name => \E j \in 1..Len(agents') : agents'[j] = agents[i]
        /\ \A j \in 1..Len(agents') :
              agents'[j].name # ret'.name => \E i \in 1..Len(agents) : agents[i] = agents'[j]
        /\ Len(agents') =
              Len(agents) + (IF \E i \in 1..Len(agents) : agents[i].name = ret'.name
                             THEN 0 ELSE 1)
        /\ objs'[CrossAgentId].connected_modules =
              objs[CrossAgentId].connected_modules \cup {ret'.name}
        /\ current_iteration' = current_iteration
        /\ phase' = phase
        /\ cycle_count' = cycle_count
        /\ is_running' = is_running

\* a freshly constructed orchestrator
C27_Fresh ==
    calls = 0 =>
        /\ current_iteration = 0
        /\ phase = "idle"
        /\ cycle_count = 0
        /\ is_running = FALSE
        /\ agents = <<[name |-> objs[AeAgentId].name, id |-> AeAgentId],
                      [name |-> objs[CrossAgentId].name, id |-> CrossAgentId]>>

\* C27: register_agent(agent) leaves the registry mapping agent.name to that
\* agent and every other entry as it was (a name in use is replaced, so names
\* stay unique and the registry grows by at most one), adds the name to the
\* relay agent's connected modules and leaves current_iteration, phase,
\* cycle_count and is_running alone; a freshly constructed orchestrator has
\* iteration 0, phase idle, cycle_count 0 and its two own agents registered.
C27_RegisterFrame ==
    /\ [](C27_Fresh /\ NamesUnique(agents))
    /\ [][C27_Step]_vars

\* "A" has been created twice: the second object replaced the first in the
\* registry, after an optimization phase had moved phase and iteration
C27_Witness ==
    /\ ret.op = "create_micro_agent"
    /\ ret.name = "A"
    /\ Len(objs) = 4
    /\ objs[3].name = "A"
    /\ agents[3] = [name |-> "A", id |-> 4]
    /\ Len(agents) = 3
    /\ phase = "optimization"
    /\ current_iteration = 5

\* a store() call on a category that holds a JSON object, or that is absent
\* and is created as one, has returned
StoredKeyed ==
    /\ ret'.op = "store"
    /\ ret'.raises = "none"
    /\ calls' = calls + 1
    /\ (ret'.category \in DOMAIN file => IsDict(file[ret'.category]))

\* C28: store(key, data, category) on a key-indexed category replaces the
\* whole value held under the key (the new value is the payload alone) and
\* leaves every other key of the category and every other section unchanged.
C28_Step ==
    StoredKeyed =>
        LET c == ret'.category
            k == ret'.key
            before == IF c \in DOMAIN file THEN file[c].dict ELSE EmptyDict
        IN  /\ DOMAIN file' = DOMAIN file \cup {c}
            /\ IsDict(file'[c])
            /\ DOMAIN file'[c].dict = DOMAIN before \cup {k}
            /\ file'[c].dict[k] = [data |-> JsonValue(stored'[<<c, k>>])]
            /\ \A k2 \in DOMAIN before \ {k} : file'[c].dict[k2] = before[k2]
            /\ \A c2 \in DOMAIN file \ {c} : file'[c2] = file[c2]

C28_StoreReplaces == [][C28_Step]_vars

\* k1 held a payload with fields status and level and now holds a payload
\* with the field owner alone, next to another key of the same category
C28_Witness ==
    /\ ret.op = "store"
    /\ ret.key = "k1"
    /\ ret.category = "agents"
    /\ ret.prior = [data |-> [status |-> "ready", level |-> 1]]
    /\ file["agents"].dict["k1"] = [data |-> [owner |-> "x"]]
    /\ "k2" \in DOMAIN file["agents"].dict

\* level clamped to [0.1, 10.0], in tenths
Clamped(level) == IF level < 1 THEN 1 ELSE IF level > 100 THEN 100 ELSE level

\* an update_resonance call has returned
Tuned == ret'.op = "update_resonance" /\ calls' = calls + 1

C29_InRange ==
    \A o \in 1..Len(objs) :
        IF HasUpdateResonance(objs[o])
        THEN /\ objs[o].resonance_level \in 1..100
             /\ ("resonance_level" \in DOMAIN objs[o].state
                    => objs[o].state["resonance_level"] = objs[o].resonance_level)
        ELSE /\ "resonance_level" \notin DOMAIN objs[o]
             /\ "resonance_level" \notin DOMAIN objs[o].state
             /\ "resonance_level" \notin DOMAIN file["agents"].dict[objs[o].name].data.state

C29_Step ==
    /\ Tuned =>
          /\ ret'.raises = "none"
          /\ objs'[ret'.agent].resonance_level = Clamped(ret'.level)
          /\ \A o \in 1..Len(objs) : o # ret'.agent => objs'[o] = objs[o]
    /\ Optimized =>
          \A i \in 1..Len(agents) :
              HasUpdateResonance(objs[agents[i].id])
                 => objs'[agents[i].id].resonance_level = Clamped(15)

\* C29: the resonance level of an agent that has update_resonance is within
\* [0.1, 10.0] in every reachable state; update_resonance(level) sets it to
\* level clamped to that interval, run_iteration(5) sets it to 1.5 on every
\* registered agent that has update_resonance, and an agent without it has
\* no resonance level, neither as attribute nor in its snapshot.
C29_ResonanceClamped == [](C29_InRange) /\ [][C29_Step]_vars

\* update_resonance(25.0) returned and the level is 10.0, in the object and
\* in its stored snapshot
C29_Witness ==
    /\ ret.op = "update_resonance"
    /\ ret.level = 250
    /\ objs[AeAgentId].resonance_level = 100
    /\ file["agents"].dict[objs[AeAgentId].name].data.state["resonance_level"] = 100
    /\ Len(objs) = 3

\* the sum of a counter of self.state over the first n agent objects
RECURSIVE SumOf(_, _, _)
SumOf(os, counter, n) ==
    IF n = 0 THEN 0 ELSE os[n].state[counter] + SumOf(os, counter, n - 1)

\* messages an agent object has received and that are no longer in its inbox
Gone(o) == o.state.messages_received - Len(o.message_queue)

\* the number of messages the step drained from the inbox of object o:
\* returned by process_pending_messages, or counted as processed_messages by
\* the optimization phase
DrainedFrom(o) ==
    IF Drained /\ ret'.agent = o THEN Len(ret'.processed)
    ELSE IF Optimized /\ \E i \in 1..Len(agents) : agents[i].id = o
    THEN LET i == CHOOSE i \in 1..Len(agents) : agents[i].id = o
         IN  ret'.result.optimization_actions[i].processed_messages
    ELSE 0

\* sent and received add up to the communications ever logged
C30_Sums ==
    /\ SumOf(objs, "messages_sent", Len(objs)) = pushed.communications
    /\ SumOf(objs, "messages_received", Len(objs)) = pushed.communications

\* before the first call no agent has received or drained anything
C30_Start ==
    calls = 0 => \A o \in 1..Len(objs) :
                    objs[o].state.messages_received = 0 /\ objs[o].message_queue = <<>>

\* received minus inbox length grows by exactly what the step drained
C30_Step ==
    \A o \in 1..Len(objs) : Gone(objs'[o]) = Gone(objs[o]) + DrainedFrom(o)

\* C30: for every agent messages_received equals the inbox length plus the
\* number of messages drained from its inbox so far, and the sum of
\* messages_sent over all agents equals the sum of messages_received over all
\* agents and the number of communications ever logged.
C30_MessagesConserved == [](C30_Sums /\ C30_Start) /\ [][C30_Step]_vars

\* the first micro agent has received two messages, one drained and one
\* still in its inbox
C30_Witness ==
    /\ ret.op = "communicate"
    /\ Len(objs) = 3
    /\ objs[3].state.messages_received = 2
    /\ Len(objs[3].message_queue) = 1
    /\ pushed.communications = 2
    /\ Len(Communications) = 2

\* C31: whenever no orchestrator operation is in progress, the phase and
\* current_iteration the orchestrator holds in memory equal the phase and
\* current_iteration persisted in infinity_loop: after construction, after
\* every run_iteration and after run_full_cycle.
C31_MemoryMatchesStore ==
    cyc.i = 0 =>
        /\ file["infinity_loop"].dict["phase"] = [str |-> phase]
        /\ file["infinity_loop"].dict["current_iteration"] = [int |-> current_iteration]

\* the requests that are inside the loop of run_full_cycle
Cycling == {t \in Threads : pc[t] = "cycling"}

\* C32: at most one full cycle executes at a time: of the requests that come
\* in through the is_running guard, no two are inside run_full_cycle together.
C32_OneCycleAtATime == Cardinality(Cycling) <= 1

\* in the document doc the last history entry, if there is one, carries the
\* current iteration and phase
LastEntryCurrent(doc) ==
    "infinity_loop" \in DOMAIN doc =>
        LET loop == doc["infinity_loop"].dict
            h == loop["history"].list
        IN  h # <<>> =>
               /\ loop["current_iteration"] = [int |-> h[Len(h)].iteration]
               /\ loop["phase"] = [str |-> h[Len(h)].phase]

\* the store as a document: what is in the file, every document written so
\* far, and what get_infinity_loop_status returned
AllLastEntriesCurrent ==
    /\ fileState = "ok" => LastEntryCurrent(file)
    /\ \A d \in written : LastEntryCurrent(d)
    /\ (ret.op = "get_infinity_loop_status" /\ ret.raises = "none"
           => \/ ret.result.loop.dict = EmptyDict
              \/ LastEntryCurrent([infinity_loop |-> ret.result.loop]))

\* C33: in every persisted document whose infinity_loop.history is not
\* empty, the last history entry's iteration and phase equal
\* infinity_loop.current_iteration and infinity_loop.phase, also when
\* truncation fires and when concurrent callers interleave.
C33_LastEntryCurrent == AllLastEntriesCurrent

\* no store() call has been made under the category "infinity_loop"
LoopWrittenByUpdateOnly ==
    /\ \A t \in Threads : "category" \notin DOMAIN req[t]
    /\ \A r \in completed : "category" \notin DOMAIN r

\* as long as update_infinity_loop is the only writer of infinity_loop, the
\* last history entry is the current one in every document, whatever the
\* interleaving of the callers and also when truncation fires
UpdateKeepsLastEntry == LoopWrittenByUpdateOnly => AllLastEntriesCurrent

\* three update_infinity_loop calls have completed on a nearly full history:
\* the history has been truncated and ends with iteration 5 after iteration 3
TruncatedByThirdUpdate ==
    /\ LoopWrittenByUpdateOnly
    /\ AllIdle
    /\ fileState = "ok"
    /\ Cardinality({r \in completed : r.op = "update_infinity_loop"}) = 3
    /\ Len(History) = HistoryKeep
    /\ History[Len(History)].iteration = 5
    /\ History[Len(History) - 1].iteration = 3
    /\ file["infinity_loop"].dict["phase"] = [str |-> "optimization"]

====
